---- MODULE Spec2Model ----
(***************************************************************************)
(* Job execution and artifact resolution of the local web UI               *)
(* (src/webapp/app.py): the Job Registry (JobManager), the Job Runner      *)
(* (run_query_script), the Path Sanitizer (sanitize_path), the Output      *)
(* Scanner (parse_generated_files), the Argument Resolver                  *)
(* (resolve_query_args) and the handlers that submit runs and serve        *)
(* artifacts.                                                              *)
(*                                                                         *)
(* Representation of values.                                               *)
(*   - A text (stdout, stderr, an error message) is a sequence of words;   *)
(*     the word NL stands for a run of whitespace.  "" is <<>>.            *)
(*   - A word, and every path string, is a sequence of path components     *)
(*     (what pathlib calls .parts); an absolute path starts with ROOT.     *)
(*   - A component is a record [stem, ext]: stem is the sequence of string *)
(*     chunks whose concatenation is the name without its last extension,  *)
(*     ext the extension without the dot ("" when there is none).          *)
(*   - Python's None is <<>> for the optional path and text fields (the    *)
(*     code never stores an empty path or an empty error text there).      *)
(***************************************************************************)
EXTENDS Integers, Sequences, FiniteSets, TLC

\* ------------------------------------------------------------------ bounds

\* Submit-run requests made in one behaviour.
MaxSubmits == 2
\* Submit-run requests made in a behaviour in which the file system changes
\* under the server.
MaxEnvSubmits == 1
\* Writes a caller makes into the value get_job returned to it.
MaxCallerWrites == 2
\* Readings of the wall clock: 0..MaxClock.
MaxClock == 2
\* Words of the stdout and of the stderr handed to the Output Scanner alone.
MaxStdoutWords == 2
MaxStderrWords == 1
\* Tokens of a baseline handed to the Argument Resolver alone.
MaxArgs == 4
\* Spaces before and after a date text handed to the date normalization alone.
MaxPadding == 1
\* Scripts in the query directory handed to the Query Catalog alone.
MaxScripts == 2
\* Components of a path string handed to the Path Sanitizer alone.
MaxPathLen == 3

\* ------------------------------------------------------------------ values

None == <<>>

Nm(s, e) == [stem |-> <<s>>, ext |-> e]
Dir(s) == Nm(s, "")

ROOT == Dir("/")
DOT == Dir(".")
DOTDOT == Dir("..")
TILDE == Dir("~")
TILDE_NOUSER == Dir("~nouser")
NL == <<Dir("\n")>>

Front(s) == SubSeq(s, 1, Len(s) - 1)
Last(s) == s[Len(s)]

RECURSIVE SeqToSet(_)
SeqToSet(s) == IF s = <<>> THEN {} ELSE {Head(s)} \cup SeqToSet(Tail(s))

\* ------------------------------------------------------ module constants

PROJECT_ROOT == <<ROOT, Dir("proj")>>
OUTPUT_DIR == PROJECT_ROOT \o <<Dir("outputs")>>
\* The home directory of the account the server runs as (outside the project).
HOME == <<ROOT, Dir("home")>>

IMAGE_EXTENSIONS == {"png", "jpg", "jpeg", "svg"}
DATA_EXTENSIONS == {"csv", "txt", "tsv", "json", "parquet"}

QUEUED == "queued"
RUNNING == "running"
COMPLETED == "completed"
ERROR == "error"

\* str.lower() on the extensions that occur in the model.
lower(e) == CASE e = "PNG" -> "png"
              [] e = "CSV" -> "csv"
              [] OTHER -> e

\* Path.suffix of the final component, lower-cased (resolved.suffix.lower()).
suffix_lower(p) == IF p = <<>> THEN "" ELSE lower(Last(p).ext)

\* ---------------------------------------------------------------- state

VARIABLES
    jobs,     \* JobManager._jobs: job id -> record
    req,      \* the Submit-run requests (api_run_query), one per slot
    wrk,      \* the worker thread of each slot (run_query_script)
    files,    \* the files and directories that exist, by real path
    lnk,      \* None, or where PROJECT_ROOT/out points once it is a symbolic link
    now,      \* the wall clock (datetime.utcnow)
    probe     \* the call of a pure function under test, and its result

vars == <<jobs, req, wrk, files, lnk, now, probe>>

\* ------------------------------------------------------------ file system

OUT_DIR == PROJECT_ROOT \o <<Dir("out")>>
ETC_DIR == <<ROOT, Dir("etc")>>
\* The directory a script writes to may be replaced by a symbolic link.
LINK == OUT_DIR
CHART_FILE == OUT_DIR \o <<Nm("chart", "png")>>
DATA_FILE == OUT_DIR \o <<Nm("data", "csv")>>
PASSWD_FILE == ETC_DIR \o <<Nm("passwd", "txt")>>

\* Directories and files that exist throughout.
StaticFiles == {<<ROOT>>, PROJECT_ROOT, OUT_DIR, ETC_DIR, HOME, PASSWD_FILE}
\* Where the link may point: a directory outside the project.
LinkTargets == {ETC_DIR}

\* ---------------------------------------------------------- Path Sanitizer

NotDot(c) == c # DOT

\* pathlib.Path(text): "." components are dropped, ".." ones are kept.
Path(s) == SelectSeq(s, NotDot)

is_absolute(p) == p # <<>> /\ Head(p) = ROOT

\* Path.expanduser(): a relative path whose first component starts with "~" has
\* it replaced by that user's home; an unknown user raises RuntimeError.
expanduser(p) ==
    IF p = <<>> \/ is_absolute(p) THEN [err |-> "", path |-> p]
    ELSE IF Head(p) = TILDE THEN [err |-> "", path |-> HOME \o Tail(p)]
    ELSE IF Head(p) = TILDE_NOUSER THEN [err |-> "RuntimeError", path |-> None]
    ELSE [err |-> "", path |-> p]

\* os.path.realpath, non-strict: components left to right, ".." steps up from
\* the real path built so far, a symbolic link is replaced by its target.
RECURSIVE realpath(_, _)
realpath(done, rest) ==
    IF rest = <<>> THEN done
    ELSE LET c == Head(rest) IN
         IF c = DOT THEN realpath(done, Tail(rest))
         ELSE IF c = DOTDOT
              THEN realpath(IF Len(done) > 1 THEN Front(done) ELSE done, Tail(rest))
         ELSE IF Append(done, c) = LINK /\ lnk # None
              THEN realpath(lnk, Tail(rest))
         ELSE realpath(Append(done, c), Tail(rest))

\* Path.resolve() of an absolute path.
resolve(p) == realpath(<<ROOT>>, Tail(p))

\* Path.parents: every proper ancestor.
parents(p) == {SubSeq(p, 1, k) : k \in 1..(Len(p) - 1)}

\* Path.exists() of a resolved path.
exists(p) == p \in files

\* The boundary test of sanitize_path (line 171), negated: inside or equal.
within_root(resolved) == PROJECT_ROOT \in parents(resolved) \/ resolved = PROJECT_ROOT

\* The existence test made before the boundary test.
sanitize_path_exists_first(path) ==
    LET e == expanduser(Path(path)) IN
    IF e.err # "" THEN [err |-> e.err, path |-> None]
    ELSE LET candidate == e.path
             resolved == IF ~is_absolute(candidate)
                         THEN resolve(PROJECT_ROOT \o candidate)
                         ELSE resolve(candidate)
         IN  IF ~exists(resolved)
             THEN [err |-> "FileNotFoundError", path |-> None]
             ELSE IF ~within_root(resolved)
             THEN [err |-> "ValueError", path |-> None]
             ELSE [err |-> "", path |-> resolved]

\* sanitize_path: the resolved path, or the exception raised.
sanitize_path(path) ==
    LET e == expanduser(Path(path)) IN
    IF e.err # "" THEN [err |-> e.err, path |-> None]
    ELSE LET candidate == e.path
             resolved == IF ~is_absolute(candidate)
                         THEN resolve(PROJECT_ROOT \o candidate)
                         ELSE resolve(candidate)
         IN  IF ~within_root(resolved)
             THEN [err |-> "ValueError", path |-> None]
             ELSE IF ~exists(resolved)
             THEN [err |-> "FileNotFoundError", path |-> None]
             ELSE [err |-> "", path |-> resolved]

\* ------------------------------------------------------ date normalisation
\* A date string is its sequence of characters.

DigitChars == <<"0", "1", "2", "3", "4", "5", "6", "7", "8", "9">>
IsDigit(c) == \E i \in 1..10 : DigitChars[i] = c
DigitVal(c) == (CHOOSE i \in 1..10 : DigitChars[i] = c) - 1

AllDigits(f) == \A i \in 1..Len(f) : IsDigit(f[i])

RECURSIVE IntOf(_)
IntOf(f) == IF f = <<>> THEN 0 ELSE 10 * IntOf(Front(f)) + DigitVal(Last(f))

\* str.strip() of a character sequence.
RECURSIVE lstrip(_)
lstrip(s) == IF s # <<>> /\ Head(s) = " " THEN lstrip(Tail(s)) ELSE s
RECURSIVE rstrip(_)
rstrip(s) == IF s # <<>> /\ Last(s) = " " THEN rstrip(Front(s)) ELSE s
strip(s) == rstrip(lstrip(s))

\* The directives of _strptime: %Y is four digits, %m is 1[0-2]|0[1-9]|[1-9],
\* %d is 3[01]|[12]\d|0[1-9]|[1-9]| [1-9].
MatchY(f) == Len(f) = 4 /\ AllDigits(f)
MatchM(f) == /\ Len(f) \in {1, 2}
             /\ AllDigits(f)
             /\ IntOf(f) \in 1..12
MatchD(f) == \/ /\ Len(f) \in {1, 2}
                /\ AllDigits(f)
                /\ IntOf(f) \in 1..31
             \/ /\ Len(f) = 2
                /\ f[1] = " "
                /\ IsDigit(f[2])
                /\ DigitVal(f[2]) \in 1..9
DayOf(f) == IF f[1] = " " THEN DigitVal(f[2]) ELSE IntOf(f)

IsLeap(y) == (y % 4 = 0 /\ y % 100 # 0) \/ y % 400 = 0
DaysIn(y, m) == IF m = 2 THEN (IF IsLeap(y) THEN 29 ELSE 28)
                ELSE IF m \in {4, 6, 9, 11} THEN 30 ELSE 31
\* datetime(y, m, d) raises ValueError outside these ranges.
ValidDate(y, m, d) == y \in 1..9999 /\ m \in 1..12 /\ d \in 1..DaysIn(y, m)

Pad2(n) == <<DigitChars[(n \div 10) + 1], DigitChars[(n % 10) + 1]>>
Pad4(n) == Pad2(n \div 100) \o Pad2(n % 100)
\* The decimal digits of n >= 1, without leading zeros.
RECURSIVE Digits(_)
Digits(n) == IF n < 10 THEN <<DigitChars[n + 1]>>
             ELSE Digits(n \div 10) \o <<DigitChars[(n % 10) + 1]>>

\* What the C library's strftime makes of %Y for a year below 1000: glibc
\* writes it without leading zeros, other libraries pad it to four digits.
CLibraries == {"glibc", "padding"}

\* strftime("%Y-%m-%d") with the C library libc.
strftime(libc, y, m, d) ==
    (IF libc = "glibc" THEN Digits(y) ELSE Pad4(y))
        \o <<"-">> \o Pad2(m) \o <<"-">> \o Pad2(d)

\* The three fields of text around exactly two separators sep, or <<>>.
Fields(text, sep) ==
    LET at == {i \in 1..Len(text) : text[i] = sep} IN
    IF Cardinality(at) # 2 THEN <<>>
    ELSE LET i == CHOOSE a \in at : \A b \in at : a <= b
             j == CHOOSE a \in at : \A b \in at : b <= a
         IN  <<SubSeq(text, 1, i - 1), SubSeq(text, i + 1, j - 1),
               SubSeq(text, j + 1, Len(text))>>

\* datetime.strptime(text, pattern).strftime("%Y-%m-%d"), None on ValueError.
\* order is where the year, month and day fields stand in the pattern.
strptime_iso(libc, text, sep, order) ==
    LET f == Fields(text, sep) IN
    IF f = <<>> THEN None
    ELSE LET fy == f[order[1]]
             fm == f[order[2]]
             fd == f[order[3]]
         IN  IF fy # <<>> /\ fm # <<>> /\ fd # <<>>
                /\ MatchY(fy) /\ MatchM(fm) /\ MatchD(fd)
                /\ ValidDate(IntOf(fy), IntOf(fm), DayOf(fd))
             THEN strftime(libc, IntOf(fy), IntOf(fm), DayOf(fd))
             ELSE None

\* DATE_INPUT_FORMATS: "%Y-%m-%d", "%m/%d/%Y", "%m-%d-%Y".
DATE_INPUT_FORMATS == << <<"-", <<1, 2, 3>> >>, <<"/", <<3, 1, 2>> >>, <<"-", <<3, 1, 2>> >> >>

\* A JSON value of the request body: [t |-> "null" | "str" | "num", s |-> chars].
JNull == [t |-> "null", s |-> <<>>]
JStr(chars) == [t |-> "str", s |-> chars]

RECURSIVE first_format(_, _, _)
first_format(libc, text, k) ==
    IF k > Len(DATE_INPUT_FORMATS) THEN None
    ELSE LET r == strptime_iso(libc, text, DATE_INPUT_FORMATS[k][1], DATE_INPUT_FORMATS[k][2])
         IN  IF r # None THEN r ELSE first_format(libc, text, k + 1)

\* normalize_date_input, run on a build whose C library is libc.
normalize_date_input(libc, value) ==
    IF value.t # "str" \/ value.s = <<>> THEN None
    ELSE LET text == strip(value.s) IN
         IF text = <<>> THEN None ELSE first_format(libc, text, 1)

\* ------------------------------------------------------- Argument Resolver
\* An argument is a sequence of string chunks: a flag or an opaque token is one
\* chunk, a date is its characters.

Tok(s) == <<s>>
START_FLAG == Tok("--start-date")
END_FLAG == Tok("--end-date")
FLAGS == <<START_FLAG, END_FLAG>>

\* list.index(x): the first position of x, 0 when absent (ValueError).
index(seq, x) ==
    IF \E i \in 1..Len(seq) : seq[i] = x
    THEN CHOOSE i \in 1..Len(seq) : seq[i] = x /\ \A k \in 1..(i - 1) : seq[k] # x
    ELSE 0

\* The test for a following token off by one: a flag followed by the last
\* token is taken to have none.
apply_override_short(result, flag, overrides) ==
    IF flag \notin DOMAIN overrides THEN result
    ELSE LET idx == index(result, flag) IN
         IF idx # 0 /\ idx + 1 < Len(result)
         THEN [result EXCEPT ![idx + 1] = overrides[flag]]
         ELSE result \o <<flag, overrides[flag]>>

\* The pair appended whether or not the flag is in the list.
apply_override_append(result, flag, overrides) ==
    IF flag \notin DOMAIN overrides THEN result
    ELSE result \o <<flag, overrides[flag]>>

\* One turn of the loop of resolve_query_args (lines 288-296).
apply_override(result, flag, overrides) ==
    IF flag \notin DOMAIN overrides THEN result
    ELSE LET idx == index(result, flag) IN
         IF idx # 0 /\ idx + 1 <= Len(result)
         THEN [result EXCEPT ![idx + 1] = overrides[flag]]
         ELSE result \o <<flag, overrides[flag]>>

\* resolve_query_args, given the baseline that load_query_config holds for the
\* query.
resolve_args(baseline, overrides) ==
    IF DOMAIN overrides = {} THEN baseline
    ELSE apply_override(apply_override(baseline, FLAGS[1], overrides), FLAGS[2], overrides)

\* ----------------------------------------------------------- Query Catalog
\* A query identifier (the stem of a script in QUERY_DIR) and a title are
\* sequences of characters.

LowerChars == <<"a", "b", "q", "r">>
UpperChars == <<"A", "B", "Q", "R">>
IsLetter(c) == \E i \in 1..Len(LowerChars) : c = LowerChars[i] \/ c = UpperChars[i]
upper(c) == IF \E i \in 1..Len(LowerChars) : c = LowerChars[i]
            THEN UpperChars[CHOOSE i \in 1..Len(LowerChars) : c = LowerChars[i]]
            ELSE c
lower_char(c) == IF \E i \in 1..Len(UpperChars) : c = UpperChars[i]
                 THEN LowerChars[CHOOSE i \in 1..Len(UpperChars) : c = UpperChars[i]]
                 ELSE c

\* identifier.replace("_", " ").title()
default_title(identifier) ==
    LET t == [i \in 1..Len(identifier) |->
                 IF identifier[i] = "_" THEN " " ELSE identifier[i]]
    IN  [i \in 1..Len(t) |->
            IF i = 1 \/ ~IsLetter(t[i - 1]) THEN upper(t[i]) ELSE lower_char(t[i])]

\* The scripts of QUERY_DIR: identifier -> what static inspection finds in the
\* file.  parse is "ok", or the exception that reading and parsing raises; doc
\* is the first line of the docstring, name the QUERY_NAME literal ("" when
\* there is none).
Q_A == <<"q", "_", "a">>
Q_B == <<"q", ".", "b">>
QUERY_DIR == (Q_A :> [parse |-> "ok", doc |-> "Revenue", name |-> <<>>])
          @@ (Q_B :> [parse |-> "SyntaxError", doc |-> "", name |-> <<>>])

\* sorted(): identifiers in the order of their file names.
RECURSIVE SeqLess(_, _)
CharRank(c) == CHOOSE k \in 1..8 : <<" ", ".", "_", "a", "b", "q", "r", "~">>[k] = c
SeqLess(a, b) ==
    IF a = <<>> THEN b # <<>>
    ELSE IF b = <<>> THEN FALSE
    ELSE IF Head(a) = Head(b) THEN SeqLess(Tail(a), Tail(b))
    ELSE CharRank(Head(a)) < CharRank(Head(b))

script_path(identifier) == PROJECT_ROOT \o <<Dir("Queries"), [stem |-> identifier, ext |-> "py"]>>

NoQuery == [identifier |-> <<>>, title |-> <<>>, file_path |-> None, summary |-> ""]

\* The exceptions extract_query_metadata catches (line 162).
CaughtByExtract == {"OSError", "SyntaxError"}

\* extract_query_metadata on a script whose content is src: the definition,
\* or the exception that leaves the function.
extract_metadata(identifier, src) ==
    IF src.parse \notin CaughtByExtract \cup {"ok"}
    THEN [err |-> src.parse, definition |-> NoQuery]
    ELSE [err |-> "",
          definition |->
            [identifier |-> identifier,
             title |-> IF src.parse = "ok" /\ src.name # <<>> THEN src.name
                       ELSE default_title(identifier),
             file_path |-> script_path(identifier),
             summary |-> IF src.parse = "ok" THEN src.doc ELSE ""]]

\* extract_query_metadata on a script of QUERY_DIR.
extract_query_metadata(identifier) ==
    extract_metadata(identifier, QUERY_DIR[identifier]).definition

RECURSIVE sorted_ids(_)
sorted_ids(S) ==
    IF S = {} THEN <<>>
    ELSE LET m == CHOOSE x \in S : \A y \in S \ {x} : SeqLess(x, y)
         IN  <<m>> \o sorted_ids(S \ {m})

discover_queries ==
    LET ids == sorted_ids(DOMAIN QUERY_DIR)
    IN  [i \in 1..Len(ids) |-> extract_query_metadata(ids[i])]

\* An identifier that matches no script answered with the first query of the
\* catalog.
get_query_definition_fallback(query_id) ==
    LET ds == discover_queries
        hit == {i \in 1..Len(ds) : ds[i].identifier = query_id}
    IN  IF hit = {} THEN ds[1]
        ELSE ds[CHOOSE i \in hit : \A k \in hit : i <= k]

\* get_query_definition: the first discovered definition with that identifier,
\* NoQuery for KeyError.
get_query_definition(query_id) ==
    LET ds == discover_queries
        hit == {i \in 1..Len(ds) : ds[i].identifier = query_id}
    IN  IF hit = {} THEN NoQuery
        ELSE ds[CHOOSE i \in hit : \A k \in hit : i <= k]

\* load_query_config(): the baseline arguments of query_config.json.
QUERY_CONFIG == (Q_A :> <<Tok("--limit"), Tok("50")>>)

resolve_query_args(query, overrides) ==
    resolve_args(IF query.identifier \in DOMAIN QUERY_CONFIG
                 THEN QUERY_CONFIG[query.identifier] ELSE <<>>,
                 overrides)

\* ---------------------------------------------------------- Output Scanner

Recognised(c) == lower(c.ext) \in IMAGE_EXTENSIONS \cup DATA_EXTENSIONS

\* FILE_PATTERN on one word: the longest prefix that ends in a recognised
\* extension (the pattern is greedy and case-insensitive), <<>> for no match.
pattern_match(word) ==
    LET K == {i \in 1..Len(word) : Recognised(word[i])} IN
    IF word = NL \/ K = {} THEN <<>>
    ELSE SubSeq(word, 1, CHOOSE i \in K : \A k \in K : k <= i)

\* set(FILE_PATTERN.findall(text))
findall(text) == {pattern_match(text[i]) : i \in 1..Len(text)} \ {<<>>}

\* The orders in which a Python set may be iterated.
Orders(S) == {o \in [1..Cardinality(S) -> S] : \A i, k \in 1..Cardinality(S) : o[i] = o[k] => i = k}

\* Every surviving candidate that is not taken as the chart appended to the
\* data files.
RECURSIVE scan_rest_is_data(_, _)
scan_rest_is_data(order, acc) ==
    IF order = <<>> \/ acc.err # "" THEN acc
    ELSE LET r == sanitize_path(Head(order)) IN
         IF r.err \in {"ValueError", "FileNotFoundError"} THEN scan_rest_is_data(Tail(order), acc)
         ELSE IF r.err # "" THEN [acc EXCEPT !.err = r.err]
         ELSE IF suffix_lower(r.path) \in IMAGE_EXTENSIONS /\ acc.chart_path = None
              THEN scan_rest_is_data(Tail(order), [acc EXCEPT !.chart_path = r.path])
         ELSE scan_rest_is_data(Tail(order), [acc EXCEPT !.data_files = Append(@, r.path)])

\* The loop of parse_generated_files (lines 183-192) over the candidates in
\* iteration order; acc is [err, chart_path, data_files].
RECURSIVE scan(_, _)
scan(order, acc) ==
    IF order = <<>> \/ acc.err # "" THEN acc
    ELSE LET r == sanitize_path(Head(order)) IN
         IF r.err \in {"ValueError", "FileNotFoundError"} THEN scan(Tail(order), acc)
         ELSE IF r.err # "" THEN [acc EXCEPT !.err = r.err]
         ELSE IF suffix_lower(r.path) \in IMAGE_EXTENSIONS /\ acc.chart_path = None
              THEN scan(Tail(order), [acc EXCEPT !.chart_path = r.path])
         ELSE IF suffix_lower(r.path) \in DATA_EXTENSIONS
              THEN scan(Tail(order), [acc EXCEPT !.data_files = Append(@, r.path)])
         ELSE scan(Tail(order), acc)

\* The tokens pooled by the file they resolve to: of the spellings of one
\* file, only a shortest one is kept.
candidates_one_per_file(stdout, stderr) ==
    LET C == findall(stdout) \cup findall(stderr)
        leads(c) == LET e == expanduser(Path(c)) IN
                    IF e.err # "" THEN c
                    ELSE resolve(IF is_absolute(e.path) THEN e.path ELSE PROJECT_ROOT \o e.path)
    IN  {c \in C : \A d \in C : (leads(d) = leads(c) /\ d # c) => Len(c) < Len(d)}

\* Line 179: the set of the tokens found in either stream.
candidates(stdout, stderr) == findall(stdout) \cup findall(stderr)

\* parse_generated_files, for one iteration order of the candidate set.
parse_generated_files(order) ==
    scan(order, [err |-> "", chart_path |-> None, data_files |-> <<>>])

\* str.strip() of a text: leading and trailing whitespace removed.
RECURSIVE lstrip_text(_)
lstrip_text(t) == IF t # <<>> /\ Head(t) = NL THEN lstrip_text(Tail(t)) ELSE t
RECURSIVE rstrip_text(_)
rstrip_text(t) == IF t # <<>> /\ Last(t) = NL THEN rstrip_text(Front(t)) ELSE t
strip_text(t) == rstrip_text(lstrip_text(t))

\* ------------------------------------------------------------ child process
\* What a query script may do: the text it prints, its exit code, the files
\* it has written when it exits.

W_SAVED == <<Dir("Saved")>>
W_BOOM == <<Dir("boom")>>
W_CHART == <<Dir("out"), Nm("chart", "png")>>
W_DATA == <<Dir("out"), Nm("data", "csv")>>
W_NOUSER == <<TILDE_NOUSER, Nm("x", "png")>>
\* The chart named by its absolute path.
W_ABS_CHART == CHART_FILE

ChildRuns == {
    [stdout |-> <<W_SAVED, W_CHART, NL, W_SAVED, W_DATA, NL>>, stderr |-> <<>>,
     returncode |-> 0, writes |-> {W_CHART, W_DATA}],
    [stdout |-> <<W_DATA, NL>>, stderr |-> <<>>,
     returncode |-> 0, writes |-> {W_DATA}],
    [stdout |-> <<W_CHART, NL>>, stderr |-> <<NL, W_BOOM, NL>>,
     returncode |-> 1, writes |-> {W_CHART}],
    [stdout |-> <<>>, stderr |-> <<NL>>,
     returncode |-> 2, writes |-> {}],
    [stdout |-> <<W_NOUSER, NL>>, stderr |-> <<>>,
     returncode |-> 0, writes |-> {}],
    [stdout |-> <<W_SAVED, W_ABS_CHART, NL>>, stderr |-> <<>>,
     returncode |-> 0, writes |-> {W_CHART}] }

\* -------------------------------------------------------------- Job Registry

Slots == 1..MaxSubmits

\* uuid.uuid4().hex is <<its first 8 characters, the rest>>; two calls never
\* return the same value.
UuidPrefixes == {"a"}
uuid4(r) == {<<p, ToString(r)>> : p \in UuidPrefixes}
JobIds == UNION {uuid4(r) : r \in Slots}

\* datetime.utcnow(): the reading of the wall clock.
utcnow == now

\* The record create_job stores (lines 85-98).
new_job(job_id, query, t1, t2) ==
    [id |-> job_id, query |-> query.identifier, title |-> query.title,
     status |-> QUEUED, createdAt |-> t1, updatedAt |-> t2,
     stdout |-> <<>>, stderr |-> <<>>, chartPath |-> None, dataFiles |-> <<>>,
     error |-> None, parameters |-> <<>>]

\* The record handed back without being put in the registry.
create_job_unregistered(J, job_id, query, t1, t2) == J

\* A registry that holds the newest job only.
create_job_reset(J, job_id, query, t1, t2) == (job_id :> new_job(job_id, query, t1, t2))

\* create_job: the registry after the insertion.
create_job(J, job_id, query, t1, t2) ==
    [x \in DOMAIN J \cup {job_id} |->
        IF x = job_id THEN new_job(job_id, query, t1, t2) ELSE J[x]]

\* The changes merged into every record of the registry.
update_job_shared(J, job_id, changes, t) ==
    IF job_id \notin DOMAIN J THEN J
    ELSE [x \in DOMAIN J |->
            [k \in DOMAIN J[x] |->
                IF k = "updatedAt" THEN t
                ELSE IF k \in DOMAIN changes THEN changes[k] ELSE J[x][k]]]

\* createdAt refreshed together with updatedAt.
update_job_touch(J, job_id, changes, t) ==
    IF job_id \notin DOMAIN J THEN J
    ELSE [J EXCEPT ![job_id] =
            [k \in DOMAIN @ |->
                IF k \in {"updatedAt", "createdAt"} THEN t
                ELSE IF k \in DOMAIN changes THEN changes[k] ELSE @[k]]]

\* update_job: the registry after job.update(changes) and the refresh of
\* updatedAt; unchanged for an unknown id.
update_job(J, job_id, changes, t) ==
    IF job_id \notin DOMAIN J THEN J
    ELSE [J EXCEPT ![job_id] =
            [k \in DOMAIN @ |->
                IF k = "updatedAt" THEN t
                ELSE IF k \in DOMAIN changes THEN changes[k] ELSE @[k]]]

\* get_job: dict(job), None for an unknown id.
get_job(J, job_id) == IF job_id \in DOMAIN J THEN J[job_id] ELSE None

\* set_result: the payload it passes to update_job.
result_payload(stdout, stderr, chart_path, data_files) ==
    [stdout |-> stdout, stderr |-> stderr, chartPath |-> chart_path,
     dataFiles |-> data_files]

\* ------------------------------------------------------------------- Init

NoProbe == [fn |-> "none"]

NoRequest == [pc |-> "idle", payload |-> <<>>, job |-> None,
              definition |-> NoQuery, response |-> <<>>]

NoRun == [stdout |-> <<>>, stderr |-> <<>>, returncode |-> 0]

NoWorker == [pc |-> "none", job_id |-> None, query |-> NoQuery, overrides |-> <<>>,
             args |-> <<>>, run |-> NoRun, chart_path |-> None, data_files |-> <<>>]

D_US == <<"1", "1", "/", "0", "8", "/", "2", "0", "2", "5">>
D_BAD == <<"n", "o", "t">>
Q_UNKNOWN == <<"z">>

\* Request bodies of Submit run.
Payloads == {
    [queryId |-> Q_A, startDate |-> JNull, endDate |-> JNull],
    [queryId |-> Q_B, startDate |-> JStr(D_US), endDate |-> JStr(D_BAD)],
    [queryId |-> <<>>, startDate |-> JNull, endDate |-> JNull],
    [queryId |-> Q_UNKNOWN, startDate |-> JNull, endDate |-> JNull] }

Init ==
    /\ jobs = <<>>
    /\ req = [r \in Slots |-> NoRequest]
    /\ wrk = [r \in Slots |-> NoWorker]
    /\ files = StaticFiles
    /\ lnk = None
    /\ now = 0
    /\ probe = NoProbe

\* --------------------------------------------------- Submit run (api_run_query)

\* Lines 355-367: the body is read, the query looked up, the job created.
\* Slots are taken in order (they are interchangeable).
SubmitCreate(r) ==
    /\ req[r].pc = "idle"
    /\ IF r = 1 THEN TRUE ELSE req[r - 1].pc # "idle"
    /\ \E payload \in Payloads :
        LET definition == get_query_definition(payload.queryId) IN
        IF payload.queryId = <<>>
        THEN /\ req' = [req EXCEPT ![r] = [@ EXCEPT !.pc = "returned", !.payload = payload,
                                             !.response = [code |-> 400]]]
             /\ UNCHANGED <<jobs, now>>
        ELSE IF definition = NoQuery
        THEN /\ req' = [req EXCEPT ![r] = [@ EXCEPT !.pc = "returned", !.payload = payload,
                                             !.response = [code |-> 404]]]
             /\ UNCHANGED <<jobs, now>>
        ELSE \E job_id \in uuid4(r) \ DOMAIN jobs :
                /\ jobs' = create_job(jobs, job_id, definition, utcnow, utcnow)
                /\ now' = now
                /\ req' = [req EXCEPT ![r] = [@ EXCEPT !.pc = "created", !.payload = payload,
                                                !.job = job_id, !.definition = definition]]
    /\ UNCHANGED <<wrk, files, lnk, probe>>

\* The overrides dict of lines 368-374.
overrides_of(start_iso, end_iso) ==
    LET a == IF start_iso # None THEN (START_FLAG :> start_iso) ELSE <<>>
        b == IF end_iso # None THEN (END_FLAG :> end_iso) ELSE <<>>
    IN  a @@ b

\* Lines 368-389: the dates are normalised, the parameters recorded on the job,
\* the worker thread started.  job is the dict create_job returned, which is
\* the registry's own record: job["id"] is read through it.
SubmitStart(r) ==
    /\ req[r].pc = "created"
    /\ \E libc \in CLibraries :
       LET start_iso == normalize_date_input(libc, req[r].payload.startDate)
           end_iso == normalize_date_input(libc, req[r].payload.endDate)
           job_id == jobs[req[r].job].id
       IN   /\ jobs' = update_job(jobs, job_id,
                                  [parameters |-> [startDate |-> start_iso, endDate |-> end_iso]], utcnow)
            /\ now' = now
            /\ wrk' = [wrk EXCEPT ![r] = [NoWorker EXCEPT !.pc = "start", !.job_id = job_id,
                                            !.query = req[r].definition,
                                            !.overrides = overrides_of(start_iso, end_iso)]]
    /\ req' = [req EXCEPT ![r].pc = "started"]
    /\ UNCHANGED <<files, lnk, probe>>

\* Line 391: the response reads job["id"] and job["status"] through the dict
\* create_job returned.
SubmitReturn(r) ==
    /\ req[r].pc = "started"
    /\ req' = [req EXCEPT ![r] = [@ EXCEPT !.pc = "returned",
                 !.response = [code |-> 200, jobId |-> jobs[req[r].job].id,
                               status |-> jobs[req[r].job].status,
                               title |-> req[r].definition.title]]]
    /\ UNCHANGED <<jobs, wrk, files, lnk, now, probe>>

\* ------------------------------------------------- Job Runner (run_query_script)

SafeChar(c) == IsLetter(c) \/ IsDigit(c) \/ c \in {"_", "-"}

\* re.sub(r"[^A-Za-z0-9_-]+", "-", identifier)
RECURSIVE drop_unsafe(_)
drop_unsafe(s) == IF s # <<>> /\ ~SafeChar(Head(s)) THEN drop_unsafe(Tail(s)) ELSE s
RECURSIVE sub_unsafe(_)
sub_unsafe(s) ==
    IF s = <<>> THEN <<>>
    ELSE IF SafeChar(Head(s)) THEN <<Head(s)>> \o sub_unsafe(Tail(s))
    ELSE <<"-">> \o sub_unsafe(drop_unsafe(s))

RECURSIVE lstrip_dash(_)
lstrip_dash(s) == IF s # <<>> /\ Head(s) = "-" THEN lstrip_dash(Tail(s)) ELSE s
RECURSIVE rstrip_dash(_)
rstrip_dash(s) == IF s # <<>> /\ Last(s) = "-" THEN rstrip_dash(Front(s)) ELSE s

\* Line 216.
safe_query(identifier) ==
    LET t == rstrip_dash(lstrip_dash(sub_unsafe(identifier)))
    IN  IF t # <<>> THEN t ELSE <<"q", "u", "e", "r", "y">>

\* Lines 218 and 222: OUTPUT_DIR / f"{safe_query}_{timestamp}_{job_id[:8]}_{kind}.txt"
log_file(identifier, timestamp, job_id, kind) ==
    OUTPUT_DIR \o <<[stem |-> safe_query(identifier)
                                \o <<"_", ToString(timestamp), "_", job_id[1], "_", kind>>,
                     ext |-> "txt"]>>

\* A log written for every stream that is not the empty string.
extra_files_nonempty(identifier, timestamp, job_id, stdout, stderr) ==
    (IF stdout # <<>>
     THEN <<log_file(identifier, timestamp, job_id, "output")>> ELSE <<>>)
    \o (IF stderr # <<>>
        THEN <<log_file(identifier, timestamp, job_id, "stderr")>> ELSE <<>>)

\* Lines 217-224: the log files of a run, in the order they are appended.
extra_files(identifier, timestamp, job_id, stdout, stderr) ==
    (IF strip_text(stdout) # <<>>
     THEN <<log_file(identifier, timestamp, job_id, "output")>> ELSE <<>>)
    \o (IF strip_text(stderr) # <<>>
        THEN <<log_file(identifier, timestamp, job_id, "stderr")>> ELSE <<>>)

exit_message(returncode) ==
    << <<[stem |-> <<"Query script exited with code ", ToString(returncode), ".">>,
          ext |-> ""]>> >>
NO_CHART_MESSAGE == << <<Dir("Query completed but no chart file was detected in the output.")>> >>

\* A child launched only when no other child is running.
WorkerLaunch_serial(r) ==
    /\ wrk[r].pc = "start"
    /\ \A q \in Slots : wrk[q].pc # "child"
    /\ \E launched \in BOOLEAN :
        /\ jobs' = update_job(jobs, wrk[r].job_id, [status |-> RUNNING], utcnow)
        /\ now' = now
        /\ wrk' = [wrk EXCEPT ![r] = [@ EXCEPT
                     !.pc = IF launched THEN "child" ELSE "dead",
                     !.args = resolve_query_args(wrk[r].query, wrk[r].overrides)]]
    /\ UNCHANGED <<req, files, lnk, probe>>

\* Lines 198-208: the job is marked RUNNING, the arguments are resolved and the
\* child process is launched; Popen may raise (OSError), which ends the thread.
WorkerLaunch(r) ==
    /\ wrk[r].pc = "start"
    /\ \E launched \in BOOLEAN :
        /\ jobs' = update_job(jobs, wrk[r].job_id, [status |-> RUNNING], utcnow)
        /\ now' = now
        /\ wrk' = [wrk EXCEPT ![r] = [@ EXCEPT
                     !.pc = IF launched THEN "child" ELSE "dead",
                     !.args = resolve_query_args(wrk[r].query, wrk[r].overrides)]]
    /\ UNCHANGED <<req, files, lnk, probe>>

\* The output delivered to the registry as soon as the child has produced it.
ChildExit_streaming(r) ==
    /\ wrk[r].pc = "child"
    /\ \E run \in ChildRuns :
        /\ files' = files \cup {resolve(PROJECT_ROOT \o w) : w \in run.writes}
        /\ wrk' = [wrk EXCEPT ![r] = [@ EXCEPT !.pc = "exiting",
                     !.run = [stdout |-> run.stdout, stderr |-> run.stderr,
                              returncode |-> run.returncode]]]
        /\ jobs' = update_job(jobs, wrk[r].job_id,
                              [stdout |-> run.stdout, stderr |-> run.stderr], utcnow)
    /\ UNCHANGED <<req, lnk, now, probe>>

\* The child process runs to its exit: it has written its files (named
\* relative to its working directory, PROJECT_ROOT), its output is in the pipes.
ChildExit(r) ==
    /\ wrk[r].pc = "child"
    /\ \E run \in ChildRuns :
        /\ files' = files \cup {resolve(PROJECT_ROOT \o w) : w \in run.writes}
        /\ wrk' = [wrk EXCEPT ![r] = [@ EXCEPT !.pc = "exiting",
                     !.run = [stdout |-> run.stdout, stderr |-> run.stderr,
                              returncode |-> run.returncode]]]
    /\ UNCHANGED <<jobs, req, lnk, now, probe>>

\* Lines 209-226: communicate() returns, the output is scanned, the logs are
\* written.  An exception (the output does not decode, the scanner raises, a
\* log cannot be written) ends the thread.
WorkerCollect(r) ==
    /\ wrk[r].pc = "exiting"
    /\ LET stdout == wrk[r].run.stdout
           stderr == wrk[r].run.stderr
       IN  \E io_ok \in BOOLEAN : \E order \in Orders(candidates(stdout, stderr)) :
            LET result == parse_generated_files(order)
                extra == extra_files(wrk[r].query.identifier, utcnow, wrk[r].job_id, stdout, stderr)
            IN  IF ~io_ok \/ result.err # ""
                THEN /\ wrk' = [wrk EXCEPT ![r] = [@ EXCEPT !.pc = "dead", !.run = NoRun]]
                     /\ UNCHANGED <<files, now>>
                ELSE /\ wrk' = [wrk EXCEPT ![r] = [@ EXCEPT !.pc = "exited",
                                  !.chart_path = result.chart_path,
                                  !.data_files = result.data_files \o extra]]
                     /\ files' = files \cup {OUTPUT_DIR} \cup SeqToSet(extra)
                     /\ now' = now
    /\ UNCHANGED <<jobs, req, lnk, probe>>

\* Line 227: set_result.
WorkerStore(r) ==
    /\ wrk[r].pc = "exited"
    /\  /\ jobs' = update_job(jobs, wrk[r].job_id,
                              result_payload(wrk[r].run.stdout, wrk[r].run.stderr,
                                             wrk[r].chart_path, wrk[r].data_files), utcnow)
        /\ now' = now
    /\ wrk' = [wrk EXCEPT ![r].pc = "stored"]
    /\ UNCHANGED <<req, files, lnk, probe>>

\* A failed run put back in the queue.
final_changes_requeue(returncode, stderr, chart_path) ==
    IF returncode # 0 THEN [status |-> QUEUED]
    ELSE IF chart_path = None
    THEN [status |-> ERROR, error |-> NO_CHART_MESSAGE]
    ELSE [status |-> COMPLETED]

\* The chart looked at before the exit code.
final_changes_chart_first(returncode, stderr, chart_path) ==
    IF chart_path # None THEN [status |-> COMPLETED]
    ELSE IF returncode # 0
    THEN [status |-> ERROR,
          error |-> IF strip_text(stderr) # <<>> THEN strip_text(stderr)
                    ELSE exit_message(returncode)]
    ELSE [status |-> ERROR, error |-> NO_CHART_MESSAGE]

\* A run that exits 0 without a chart taken for a success.
final_changes_no_chart_ok(returncode, stderr, chart_path) ==
    IF returncode # 0
    THEN [status |-> ERROR,
          error |-> IF strip_text(stderr) # <<>> THEN strip_text(stderr)
                    ELSE exit_message(returncode)]
    ELSE [status |-> COMPLETED]

\* The missing chart looked at before the exit code.
final_changes_no_chart_first(returncode, stderr, chart_path) ==
    IF chart_path = None
    THEN [status |-> ERROR, error |-> NO_CHART_MESSAGE]
    ELSE IF returncode # 0
    THEN [status |-> ERROR,
          error |-> IF strip_text(stderr) # <<>> THEN strip_text(stderr)
                    ELSE exit_message(returncode)]
    ELSE [status |-> COMPLETED]

\* A failed run given its status without a message.
final_changes_bare(returncode, stderr, chart_path) ==
    IF returncode # 0 \/ chart_path = None THEN [status |-> ERROR]
    ELSE [status |-> COMPLETED]

\* Lines 229-245: the changes of the final update_job.
final_changes(returncode, stderr, chart_path) ==
    IF returncode # 0
    THEN [status |-> ERROR,
          error |-> IF strip_text(stderr) # <<>> THEN strip_text(stderr)
                    ELSE exit_message(returncode)]
    ELSE IF chart_path = None
    THEN [status |-> ERROR, error |-> NO_CHART_MESSAGE]
    ELSE [status |-> COMPLETED]

WorkerFinish(r) ==
    /\ wrk[r].pc = "stored"
    /\  /\ jobs' = update_job(jobs, wrk[r].job_id,
                              final_changes(wrk[r].run.returncode, wrk[r].run.stderr,
                                            wrk[r].chart_path), utcnow)
        /\ now' = now
    /\ wrk' = [wrk EXCEPT ![r].pc = "done"]
    /\ UNCHANGED <<req, files, lnk, probe>>

\* ------------------------------------------------------------ read requests
\* A read request takes one snapshot of the registry (get_job) and answers
\* from it and from the file system; it changes nothing.

\* A stored path served as it was recorded.
serve_stored(stored) == [code |-> 200, path |-> stored]

\* send_file(path): what is served once a stored path has passed the sanitizer
\* (404 for the exceptions the handler catches, 500 for any other).
serve(stored) ==
    LET r == sanitize_path(stored) IN
    IF r.err \in {"ValueError", "FileNotFoundError"} THEN [code |-> 404, path |-> None]
    ELSE IF r.err # "" THEN [code |-> 500, path |-> None]
    ELSE [code |-> 200, path |-> r.path]

\* api_job_chart (lines 433-444).
api_job_chart(job_id) ==
    LET job == get_job(jobs, job_id) IN
    IF job = None THEN [code |-> 404, path |-> None]
    ELSE IF job.chartPath = None THEN [code |-> 404, path |-> None]
    ELSE serve(job.chartPath)

\* api_job_file (lines 446-461); file_index counts from 0.
api_job_file(job_id, file_index) ==
    LET job == get_job(jobs, job_id) IN
    IF job = None THEN [code |-> 404, path |-> None]
    ELSE IF file_index < 0 \/ file_index >= Len(job.dataFiles)
    THEN [code |-> 404, path |-> None]
    ELSE serve(job.dataFiles[file_index + 1])

\* The job record returned as it is stored, with the flags added.
api_job_status_raw(job_id) ==
    LET job == get_job(jobs, job_id) IN
    IF job = None THEN None
    ELSE job @@ [hasChart |-> job.chartPath # None, queryId |-> job.query]

\* api_job_status (lines 409-431): the body of the response, None for 404.
api_job_status(job_id) ==
    LET job == get_job(jobs, job_id) IN
    IF job = None THEN None
    ELSE LET hasChart == job.chartPath # None
             shown == [k \in (DOMAIN job \ {"chartPath"}) \cup {"hasChart", "queryId"} |->
                         IF k = "hasChart" THEN hasChart
                         ELSE IF k = "queryId" THEN job.query
                         ELSE IF k = "dataFiles"
                         THEN [i \in 1..Len(job.dataFiles) |->
                                 [name |-> Last(job.dataFiles[i]),
                                  url |-> <<"files", job_id, i - 1>>]]
                         ELSE job[k]]
         IN  IF hasChart THEN shown @@ [chartUrl |-> <<"chart", job_id>>] ELSE shown

\* The indexes a client may ask for.
FileIndexes == -1..3

GetJobStatus(job_id) ==
    /\ api_job_status(job_id) \in {api_job_status(job_id)}
    /\ UNCHANGED vars

GetJobChart(job_id) ==
    /\ api_job_chart(job_id).code \in {200, 404, 500}
    /\ UNCHANGED vars

GetJobFile(job_id, file_index) ==
    /\ api_job_file(job_id, file_index).code \in {200, 404, 500}
    /\ UNCHANGED vars

\* -------------------------------------------------------------- environment

\* Files a user or another program may remove.
Removable == {CHART_FILE, DATA_FILE}

EnvRemove(f) ==
    /\ f \in files \cap Removable
    /\ files' = files \ {f}
    /\ UNCHANGED <<jobs, req, wrk, lnk, now, probe>>

\* PROJECT_ROOT/out is replaced by a symbolic link, or becomes a directory
\* again.
EnvRelink(target) ==
    /\ lnk # target
    /\ lnk' = target
    /\ UNCHANGED <<jobs, req, wrk, files, now, probe>>

\* ------------------------------------------------------------ specification

Next ==
    \/ \E r \in Slots : SubmitCreate(r)
    \/ \E r \in Slots : SubmitStart(r)
    \/ \E r \in Slots : SubmitReturn(r)
    \/ \E r \in Slots : WorkerLaunch(r)
    \/ \E r \in Slots : ChildExit(r)
    \/ \E r \in Slots : WorkerCollect(r)
    \/ \E r \in Slots : WorkerStore(r)
    \/ \E r \in Slots : WorkerFinish(r)
    \/ \E job_id \in JobIds : GetJobStatus(job_id)
    \/ \E job_id \in JobIds : GetJobChart(job_id)
    \/ \E job_id \in JobIds : \E i \in FileIndexes : GetJobFile(job_id, i)

\* The server alone.
Spec == Init /\ [][Next]_vars

\* The requests made while the file system changes.
EnvSlots == 1..MaxEnvSubmits

NextEnv ==
    \/ \E r \in EnvSlots : SubmitCreate(r)
    \/ \E r \in EnvSlots : SubmitStart(r)
    \/ \E r \in EnvSlots : SubmitReturn(r)
    \/ \E r \in EnvSlots : WorkerLaunch(r)
    \/ \E r \in EnvSlots : ChildExit(r)
    \/ \E r \in EnvSlots : WorkerCollect(r)
    \/ \E r \in EnvSlots : WorkerStore(r)
    \/ \E r \in EnvSlots : WorkerFinish(r)
    \/ \E job_id \in JobIds : GetJobStatus(job_id)
    \/ \E job_id \in JobIds : GetJobChart(job_id)
    \/ \E job_id \in JobIds : \E i \in FileIndexes : GetJobFile(job_id, i)
    \/ \E f \in Removable : EnvRemove(f)
    \/ \E target \in {None} \cup LinkTargets : EnvRelink(target)

\* The server, and the file system changing under it.
SpecEnv == Init /\ [][NextEnv]_vars

\* ----------------------------------------------- the Path Sanitizer alone

\* Path strings of at most MaxPathLen components, absolute or relative.
PathAlphabet == {DOT, DOTDOT, TILDE, TILDE_NOUSER, Dir("proj"), Dir("out"),
                 Dir("etc"), Nm("chart", "png"), Nm("passwd", "txt")}
RelPaths == UNION {[1..n -> PathAlphabet] : n \in 0..MaxPathLen}
PathInputs == RelPaths \cup {<<ROOT>> \o p : p \in RelPaths}

ETC_CHART == ETC_DIR \o <<Nm("chart", "png")>>

InitPath ==
    /\ jobs = <<>>
    /\ req = [r \in Slots |-> NoRequest]
    /\ wrk = [r \in Slots |-> NoWorker]
    /\ files \in {StaticFiles \cup S : S \in SUBSET {CHART_FILE, ETC_CHART}}
    /\ lnk \in {None} \cup LinkTargets
    /\ now = 0
    /\ probe \in {[fn |-> "sanitize_path", arg |-> p, ret |-> [err |-> "pending", path |-> None]] :
                    p \in PathInputs}

CallSanitizePath ==
    /\ probe.fn = "sanitize_path"
    /\ probe.ret.err = "pending"
    /\ probe' = [probe EXCEPT !.ret = sanitize_path(probe.arg)]
    /\ UNCHANGED <<jobs, req, wrk, files, lnk, now>>

NextPath == CallSanitizePath

\* sanitize_path applied to one path string in one state of the file system.
SpecPath == InitPath /\ [][NextPath]_vars

\* ================================================================= claims

Terminal == {COMPLETED, ERROR}
StatusSteps == {<<QUEUED, RUNNING>>, <<RUNNING, COMPLETED>>, <<RUNNING, ERROR>>}

\* The slots whose request has created a job, and that job's record.
Created == {r \in Slots : req[r].job # None}
JobOf(r) == jobs[req[r].job]

\* C1: a job's status starts as QUEUED when the job is created and afterwards
\* changes only by QUEUED -> RUNNING, RUNNING -> COMPLETED or RUNNING -> ERROR:
\* no step moves it back, and no step changes a terminal status.
C1_StatusStateMachine ==
    [][\A id \in DOMAIN jobs' :
          IF id \in DOMAIN jobs
          THEN \/ jobs'[id].status = jobs[id].status
               \/ <<jobs[id].status, jobs'[id].status>> \in StatusSteps
          ELSE jobs'[id].status = QUEUED]_vars

\* Two jobs have run to the end, one to each terminal status.
C1_Witness ==
    /\ \E id \in DOMAIN jobs : jobs[id].status = COMPLETED
    /\ \E id \in DOMAIN jobs : jobs[id].status = ERROR

\* C2: once the runner has finished with the exit of the child process, the
\* job is COMPLETED exactly when the exit code is zero and the scanner found a
\* chart, and ERROR in every other case; a job is terminal only then.
C2_FinalStatus ==
    \A r \in Created :
        /\ wrk[r].pc = "done" =>
              /\ JobOf(r).status \in Terminal
              /\ JobOf(r).status = COMPLETED
                    <=> (wrk[r].run.returncode = 0 /\ wrk[r].chart_path # None)
        /\ JobOf(r).status \in Terminal => wrk[r].pc = "done"

\* A run that printed an existing chart and exited nonzero has ended in ERROR.
C2_Witness ==
    \E r \in Created :
        /\ wrk[r].pc = "done"
        /\ wrk[r].run.returncode # 0
        /\ wrk[r].chart_path # None
        /\ JobOf(r).status = ERROR

\* Where a path string leads: the home directory expanded, a relative path
\* joined to the trusted root, links and ".." followed.
Leads(path) ==
    LET p == expanduser(Path(path)).path
    IN  resolve(IF is_absolute(p) THEN p ELSE PROJECT_ROOT \o p)
Inside(real) ==
    /\ Len(real) >= Len(PROJECT_ROOT)
    /\ SubSeq(real, 1, Len(PROJECT_ROOT)) = PROJECT_ROOT
Sanitized == probe.fn = "sanitize_path" /\ probe.ret.err # "pending"
Resolvable(path) == expanduser(Path(path)).err = ""

\* C3: for a path string that can be resolved, sanitize_path returns the
\* resolved path exactly when it lies inside (or is) the trusted root and
\* exists; a path that leads outside the root raises the out-of-bounds error
\* whether or not it exists; one that leads inside and does not exist raises
\* the not-found error.
C3_SanitizePath ==
    (Sanitized /\ Resolvable(probe.arg)) =>
        LET real == Leads(probe.arg) IN
        /\ ~Inside(real) => probe.ret = [err |-> "ValueError", path |-> None]
        /\ (Inside(real) /\ real \notin files)
              => probe.ret = [err |-> "FileNotFoundError", path |-> None]
        /\ (Inside(real) /\ real \in files) => probe.ret = [err |-> "", path |-> real]

\* "../etc/passwd.txt", which exists outside the root, was refused as out of
\* bounds.
C3_Witness ==
    /\ Sanitized
    /\ probe.arg = <<DOTDOT, Dir("etc"), Nm("passwd", "txt")>>
    /\ Leads(probe.arg) \in files
    /\ probe.ret.err = "ValueError"

\* What a fetch of a stored path must answer in the current file system.
Fetch(stored) ==
    LET real == resolve(stored)
    IN  IF Inside(real) /\ real \in files
        THEN [code |-> 200, path |-> real] ELSE [code |-> 404, path |-> None]
NotFound == [code |-> 404, path |-> None]

\* C4: Fetch chart and Fetch data serve a file only if, at the moment of the
\* request, the job exists, the chart is set (the data index is within
\* 0..len(dataFiles)-1) and the stored path passes the Path Sanitizer again;
\* in every other case, a file since removed or now resolving outside the
\* root included, the answer is NotFound.  (The handlers write nothing.)
C4_FetchRevalidates ==
    \A id \in JobIds :
        /\ api_job_chart(id) =
              IF id \notin DOMAIN jobs THEN NotFound
              ELSE IF jobs[id].chartPath = None THEN NotFound
              ELSE Fetch(jobs[id].chartPath)
        /\ \A i \in FileIndexes :
              api_job_file(id, i) =
                 IF id \notin DOMAIN jobs THEN NotFound
                 ELSE IF i \notin 0..(Len(jobs[id].dataFiles) - 1) THEN NotFound
                 ELSE Fetch(jobs[id].dataFiles[i + 1])

\* A completed job whose chart has since been removed, and one whose data file
\* now resolves outside the root: both fetches answer NotFound.
C4_Witness ==
    \E id \in DOMAIN jobs :
        /\ jobs[id].status = COMPLETED
        /\ jobs[id].chartPath = CHART_FILE
        /\ CHART_FILE \notin files
        /\ api_job_chart(id) = NotFound
        /\ lnk # None
        /\ jobs[id].dataFiles # <<>>
        /\ jobs[id].dataFiles[1] = DATA_FILE
        /\ api_job_file(id, 0) = NotFound

\* C5: the job record is in the registry before the worker is started and
\* before the request returns: once the job id is known to the request, to
\* the worker or to the caller, get_job never answers None for it, and until
\* the child process has exited the status is QUEUED or RUNNING.
C5_RegisteredBeforeStart ==
    \A r \in Slots :
        /\ req[r].job # None => get_job(jobs, req[r].job) # None
        /\ wrk[r].pc # "none" => wrk[r].job_id \in DOMAIN jobs
        /\ (req[r].pc = "returned" /\ req[r].response.code = 200)
              => get_job(jobs, req[r].response.jobId) # None
        /\ (req[r].job # None /\ wrk[r].pc \in {"none", "start", "child"})
              => get_job(jobs, req[r].job).status \in {QUEUED, RUNNING}

\* The request has returned the job id while the child process is running,
\* and the job is read as RUNNING.
C5_Witness ==
    \E r \in Slots :
        /\ req[r].pc = "returned"
        /\ req[r].response.code = 200
        /\ wrk[r].pc = "child"
        /\ get_job(jobs, req[r].response.jobId).status = RUNNING

\* C6: a step taken on behalf of one job (by its request or its worker)
\* leaves every field of every other job's record unchanged, and a job whose
\* worker has stored its result holds exactly the stdout, stderr and artifacts
\* of its own child process.
C6_JobsIndependent ==
    /\ [][\A r \in Slots :
            (req'[r] # req[r] \/ wrk'[r] # wrk[r]) =>
                \A id \in DOMAIN jobs : id # req'[r].job => jobs'[id] = jobs[id]]_vars
    /\ [](\A r \in Created :
            wrk[r].pc \in {"stored", "done"} =>
                /\ JobOf(r).stdout = wrk[r].run.stdout
                /\ JobOf(r).stderr = wrk[r].run.stderr
                /\ JobOf(r).chartPath = wrk[r].chart_path
                /\ JobOf(r).dataFiles = wrk[r].data_files)

\* Two jobs have finished, with different output and different final status.
C6_Witness ==
    /\ \A r \in Slots : req[r].job # None /\ wrk[r].pc = "done"
    /\ \E r1, r2 \in Slots :
        /\ JobOf(r1).stdout # JobOf(r2).stdout
        /\ JobOf(r1).status = COMPLETED
        /\ JobOf(r2).status = ERROR

\* The statement of C7 as the spec has it: a job whose chartPath is set has
\* status COMPLETED.
C7_ChartOnlyWhenCompleted ==
    \A id \in DOMAIN jobs : jobs[id].chartPath # None => jobs[id].status = COMPLETED

\* C7 (amended): chartPath is never set while the job is QUEUED, nor before
\* the worker has stored the result of the exited child; every COMPLETED job
\* has its chartPath set; a job with chartPath set is RUNNING only between the
\* storing of the result and the final status, and ERROR only when the child
\* exited nonzero.
C7_ChartSetByResult ==
    \A r \in Created :
        /\ JobOf(r).status = QUEUED => JobOf(r).chartPath = None
        /\ JobOf(r).status = COMPLETED => JobOf(r).chartPath # None
        /\ JobOf(r).chartPath # None =>
              /\ wrk[r].pc \in {"stored", "done"}
              /\ JobOf(r).chartPath = wrk[r].chart_path
              /\ JobOf(r).status = RUNNING => wrk[r].pc = "stored"
              /\ JobOf(r).status = ERROR => wrk[r].run.returncode # 0

\* The child printed an existing chart path and exited nonzero: the job is
\* ERROR with its chartPath set.
C7_Witness ==
    \E r \in Created :
        /\ wrk[r].pc = "done"
        /\ JobOf(r).status = ERROR
        /\ JobOf(r).chartPath = CHART_FILE
        /\ api_job_status(req[r].job).hasChart

\* The statement of C8 as the spec has it: a job that is QUEUED or RUNNING has
\* empty stdout and stderr.
C8_OutputOnlyWhenTerminal ==
    \A id \in DOMAIN jobs :
        jobs[id].status \in {QUEUED, RUNNING} => jobs[id].stdout = <<>> /\ jobs[id].stderr = <<>>

\* C8 (amended): stdout and stderr are empty while the job is QUEUED and until
\* the child has exited and the worker has stored its result; from then on,
\* the status still RUNNING at first, they are the captured output.
C8_OutputEmptyUntilStored ==
    \A r \in Created :
        /\ JobOf(r).status = QUEUED => JobOf(r).stdout = <<>> /\ JobOf(r).stderr = <<>>
        /\ wrk[r].pc \notin {"stored", "done"} => JobOf(r).stdout = <<>> /\ JobOf(r).stderr = <<>>
        /\ wrk[r].pc \in {"stored", "done"} =>
              JobOf(r).stdout = wrk[r].run.stdout /\ JobOf(r).stderr = wrk[r].run.stderr

\* The result is stored and the final status is not: a reader sees a RUNNING
\* job with its captured output.
C8_Witness ==
    \E r \in Created :
        /\ wrk[r].pc = "stored"
        /\ JobOf(r).status = RUNNING
        /\ JobOf(r).stdout # <<>>
        /\ api_job_status(req[r].job).stdout = wrk[r].run.stdout

\* C9: once the worker of a job has finished executing, on every path through
\* the runner, the job's status is COMPLETED or ERROR.
C9_FinishedIsTerminal ==
    \A r \in Created :
        wrk[r].pc \in {"done", "dead"} => JobOf(r).status \in Terminal

\* C10: the status Submit run reports from the value create_job returned is
\* QUEUED, whatever the worker has already done.
C10_SubmitReportsQueued ==
    \A r \in Slots :
        (req[r].pc = "returned" /\ req[r].response.code = 200)
            => req[r].response.status = QUEUED

\* ------------------------------------------- a caller holding a get_job copy

\* The fields of a job record whose values are mutable objects (a list, a
\* dict): dict(job) copies the references to them, not the objects.
MutableFields == {"dataFiles", "parameters"}

\* dict(job) (line 112): the new dict, and the fields whose object it shares
\* with the record it was copied from.
dict_copy(job) == [snap |-> job, shared |-> MutableFields \cap DOMAIN job]

\* d[k] = v on a dict.
setitem(d, k, v) == [x \in DOMAIN d \cup {k} |-> IF x = k THEN v ELSE d[x]]

COPY_ID == <<"a", "1">>
CopyQuery == get_query_definition(Q_A)

\* What a caller may write into the value it was given.
CallerFieldWrites == {[status |-> COMPLETED], [error |-> NO_CHART_MESSAGE], [chartPath |-> PASSWD_FILE]}
\* Later updates of the registry.
RegistryUpdates ==
    {[status |-> RUNNING],
     [parameters |-> [startDate |-> None, endDate |-> None]],
     result_payload(<<W_SAVED>>, <<>>, CHART_FILE, <<DATA_FILE>>),
     [status |-> ERROR, error |-> NO_CHART_MESSAGE]}

InitCopy ==
    /\ now = 0
    /\ jobs = create_job(<<>>, COPY_ID, CopyQuery, utcnow, utcnow)
    /\ req = [r \in Slots |-> NoRequest]
    /\ wrk = [r \in Slots |-> NoWorker]
    /\ files = StaticFiles
    /\ lnk = None
    /\ probe = [fn |-> "get_job", pc |-> "before", last |-> "none", writes |-> 0]

\* A registry update before any copy is taken.
CopyUpdateBefore ==
    /\ probe.fn = "get_job" /\ probe.pc = "before"
    /\ \E changes \in RegistryUpdates : jobs' = update_job(jobs, COPY_ID, changes, utcnow)
    /\ UNCHANGED <<req, wrk, files, lnk, now, probe>>

\* job = job_manager.get_job(job_id)
CopyGet ==
    /\ probe.fn = "get_job" /\ probe.pc = "before"
    /\ LET c == dict_copy(get_job(jobs, COPY_ID))
       IN  probe' = [fn |-> "get_job", pc |-> "held", last |-> "get",
                     writes |-> 0, snap |-> c.snap, shared |-> c.shared]
    /\ UNCHANGED <<jobs, req, wrk, files, lnk, now>>

\* job[k] = v by the caller.
CallerSetField ==
    /\ probe.fn = "get_job" /\ probe.pc = "held" /\ probe.writes < MaxCallerWrites
    /\ \E w \in CallerFieldWrites :
        probe' = [probe EXCEPT !.snap = [k \in DOMAIN @ |-> IF k \in DOMAIN w THEN w[k] ELSE @[k]],
                               !.last = "caller", !.writes = @ + 1]
    /\ UNCHANGED <<jobs, req, wrk, files, lnk, now>>

\* job["dataFiles"].append(path) by the caller: the list object is changed,
\* for every dict that holds it.
CallerAppendFile ==
    /\ probe.fn = "get_job" /\ probe.pc = "held" /\ probe.writes < MaxCallerWrites
    /\ probe' = [probe EXCEPT !.snap.dataFiles = Append(@, PASSWD_FILE),
                              !.last = "caller", !.writes = @ + 1]
    /\ jobs' = IF "dataFiles" \in probe.shared
               THEN [jobs EXCEPT ![COPY_ID].dataFiles = Append(@, PASSWD_FILE)]
               ELSE jobs
    /\ UNCHANGED <<req, wrk, files, lnk, now>>

\* job["parameters"]["startDate"] = text by the caller.
CallerSetParameter ==
    /\ probe.fn = "get_job" /\ probe.pc = "held" /\ probe.writes < MaxCallerWrites
    /\ probe' = [probe EXCEPT !.snap.parameters = setitem(@, "startDate", D_BAD),
                              !.last = "caller", !.writes = @ + 1]
    /\ jobs' = IF "parameters" \in probe.shared
               THEN [jobs EXCEPT ![COPY_ID].parameters = setitem(@, "startDate", D_BAD)]
               ELSE jobs
    /\ UNCHANGED <<req, wrk, files, lnk, now>>

\* A registry update after the copy was taken: job.update(changes) binds the
\* changed keys of the record to new objects.
CopyUpdateAfter ==
    /\ probe.fn = "get_job" /\ probe.pc = "held"
    /\ \E changes \in RegistryUpdates :
        /\ jobs' = update_job(jobs, COPY_ID, changes, utcnow)
        /\ probe' = [probe EXCEPT !.shared = @ \ DOMAIN changes, !.last = "registry"]
    /\ UNCHANGED <<req, wrk, files, lnk, now>>

NextCopy ==
    \/ CopyUpdateBefore
    \/ CopyGet
    \/ CallerSetField
    \/ CallerAppendFile
    \/ CallerSetParameter
    \/ CopyUpdateAfter

\* One job, a caller that holds what get_job returned, and later updates.
SpecCopy == InitCopy /\ [][NextCopy]_vars

\* C11: no mutation a caller performs on the value get_job returned, on its
\* top-level fields or on the nested dataFiles list and parameters mapping,
\* changes the record in the registry, and no later registry update changes a
\* value already returned.
C11_DefensiveCopy ==
    [][/\ probe'.last = "caller" => jobs' = jobs
       /\ (probe.pc = "held" /\ probe'.last = "registry") => probe'.snap = probe.snap]_vars

\* --------------------------------------- the Job Registry, line by line

\* The Job Registry with the steps of update_job taken one at a time under
\* self._lock.  probe holds the thread inside update_job (pc, job_id, changes),
\* the registry as it was when the lock was last free (committed) and what the
\* last get_job returned (seen).

REG_IDS == {<<"a", "1">>, <<"a", "2">>}

\* The changes its callers pass to update_job.
RegChanges ==
    {[status |-> RUNNING],
     result_payload(<<W_SAVED>>, <<>>, CHART_FILE, <<DATA_FILE>>)}

\* with self._lock: the lock can be taken when no thread holds it.
lock_free(pc) == pc = "idle"

\* The changes stored under an id the registry does not hold.
merge_job_upsert(J, job_id, changes) ==
    [x \in DOMAIN J \cup {job_id} |->
        IF x # job_id THEN J[x]
        ELSE IF x \in DOMAIN J
        THEN [k \in DOMAIN J[x] |-> IF k \in DOMAIN changes THEN changes[k] ELSE J[x][k]]
        ELSE changes]

\* Lines 103-106: the record is looked up and, if there is one, the changes
\* are merged into it.
merge_job(J, job_id, changes) ==
    IF job_id \notin DOMAIN J THEN J
    ELSE [J EXCEPT ![job_id] =
            [k \in DOMAIN @ |-> IF k \in DOMAIN changes THEN changes[k] ELSE @[k]]]

\* Line 107, skipped by the return of line 105.
stamp_job(J, job_id, t) ==
    IF job_id \notin DOMAIN J THEN J ELSE [J EXCEPT ![job_id].updatedAt = t]

RegIdle == [fn |-> "registry", pc |-> "idle", job_id |-> None, changes |-> <<>>,
            committed |-> <<>>, seen |-> None, last |-> "none"]

InitRegistry ==
    /\ now = 0
    /\ jobs = <<>>
    /\ req = [r \in Slots |-> NoRequest]
    /\ wrk = [r \in Slots |-> NoWorker]
    /\ files = StaticFiles
    /\ lnk = None
    /\ probe = RegIdle

\* The wall clock advances.
RegTick ==
    /\ probe.fn = "registry"
    /\ now < MaxClock
    /\ now' = now + 1
    /\ probe' = [probe EXCEPT !.seen = None]
    /\ UNCHANGED <<jobs, req, wrk, files, lnk>>

\* create_job, its insertion made under the lock.
RegCreate ==
    /\ probe.fn = "registry"
    /\ lock_free(probe.pc)
    /\ \E job_id \in REG_IDS \ DOMAIN jobs :
        /\ jobs' = create_job(jobs, job_id, CopyQuery, utcnow, utcnow)
        /\ probe' = [probe EXCEPT !.committed = jobs', !.seen = None, !.last = "create"]
    /\ UNCHANGED <<req, wrk, files, lnk, now>>

\* get_job, its copy made under the lock.
RegGet ==
    /\ probe.fn = "registry"
    /\ lock_free(probe.pc)
    /\ \E job_id \in REG_IDS :
        /\ get_job(jobs, job_id) # None
        /\ probe' = [probe EXCEPT !.seen = get_job(jobs, job_id), !.last = "get"]
    /\ UNCHANGED <<jobs, req, wrk, files, lnk, now>>

\* update_job, lines 102-106: the lock is taken, the changes merged.
RegUpdateMerge ==
    /\ probe.fn = "registry"
    /\ lock_free(probe.pc)
    /\ \E job_id \in REG_IDS : \E changes \in RegChanges :
        /\ jobs' = merge_job(jobs, job_id, changes)
        /\ probe' = [probe EXCEPT !.pc = "merged", !.job_id = job_id, !.changes = changes,
                                  !.committed = jobs, !.seen = None, !.last = "update"]
    /\ UNCHANGED <<req, wrk, files, lnk, now>>

\* update_job, line 107 (or the return of line 105), and the lock released.
RegUpdateStamp ==
    /\ probe.fn = "registry"
    /\ probe.pc = "merged"
    /\ jobs' = stamp_job(jobs, probe.job_id, utcnow)
    /\ probe' = [probe EXCEPT !.pc = "idle", !.committed = jobs', !.seen = None]
    /\ UNCHANGED <<req, wrk, files, lnk, now>>

NextRegistry ==
    \/ RegTick
    \/ RegCreate
    \/ RegGet
    \/ RegUpdateMerge
    \/ RegUpdateStamp

SpecRegistry == InitRegistry /\ [][NextRegistry]_vars

\* What update(id, fields) must make of registry J at time t.
Updated(J, job_id, changes, t) ==
    [x \in DOMAIN J |->
        IF x # job_id THEN J[x]
        ELSE [k \in DOMAIN J[x] |->
                IF k = "updatedAt" THEN t
                ELSE IF k \in DOMAIN changes THEN changes[k] ELSE J[x][k]]]

\* C12: update_job with an id that is not in the registry returns normally,
\* creates no record and leaves every record, updatedAt included, unchanged;
\* with a known id it merges the changes into that one record and refreshes
\* its updatedAt, and no create_job or get_job sees the registry in between.
C12_UpdateNoOpOrAtomic ==
    /\ [][(probe.pc = "merged" /\ probe'.pc = "idle") =>
            /\ probe.job_id \notin DOMAIN probe.committed => jobs' = probe.committed
            /\ jobs' = Updated(probe.committed, probe.job_id, probe.changes, now)
            /\ jobs' = update_job(probe.committed, probe.job_id, probe.changes, now)]_vars
    /\ [](probe.fn = "registry" =>
            /\ probe.seen # None => probe.seen = probe.committed[probe.seen.id]
            /\ probe.last = "create" => probe.committed = jobs)

\* update_job has returned for an id that is not in the registry, which holds
\* a record last updated at an earlier time.
C12_Witness ==
    /\ probe.fn = "registry" /\ probe.pc = "idle" /\ probe.last = "update"
    /\ probe.job_id \notin DOMAIN jobs
    /\ \E id \in DOMAIN jobs : jobs[id].status = RUNNING /\ jobs[id].updatedAt < now

\* ----------------------------------------------- the Output Scanner alone

SVG_FILE == OUT_DIR \o <<Nm("b", "svg")>>
W_SVG == <<Dir("out"), Nm("b", "svg")>>
W_DOT_DATA == <<DOT, Dir("out"), Nm("data", "csv")>>
W_PASSWD == <<DOTDOT, Dir("etc"), Nm("passwd", "txt")>>
W_MISSING == <<Dir("out"), Nm("none", "csv")>>

\* Words a child process prints.
ScanWords == {W_SAVED, W_CHART, W_SVG, W_DATA, W_DOT_DATA, W_PASSWD, W_MISSING, W_NOUSER}
Texts(n) == UNION {[1..k -> ScanWords] : k \in 0..n}
\* "Saved chart to out/chart.png\nSaved CSV to out/data.csv\n"
SAVED_BOTH == <<W_SAVED, W_CHART, NL, W_SAVED, W_DATA, NL>>

ScanPending == [err |-> "pending", chart_path |-> None, data_files |-> <<>>]

InitScan ==
    /\ jobs = <<>>
    /\ req = [r \in Slots |-> NoRequest]
    /\ wrk = [r \in Slots |-> NoWorker]
    /\ files \in {StaticFiles \cup S : S \in SUBSET {CHART_FILE, SVG_FILE, DATA_FILE}}
    /\ lnk \in {None} \cup LinkTargets
    /\ now = 0
    /\ probe \in {[fn |-> "parse_generated_files", stdout |-> out, stderr |-> err,
                   order |-> <<>>, ret |-> ScanPending] :
                    out \in Texts(MaxStdoutWords) \cup {SAVED_BOTH},
                    err \in Texts(MaxStderrWords)}

\* result = parse_generated_files(stdout, stderr), the set of candidates
\* iterated in one of its orders.
CallScan ==
    /\ probe.fn = "parse_generated_files"
    /\ probe.ret.err = "pending"
    /\ \E order \in Orders(candidates(probe.stdout, probe.stderr)) :
        probe' = [probe EXCEPT !.order = order, !.ret = parse_generated_files(order)]
    /\ UNCHANGED <<jobs, req, wrk, files, lnk, now>>

NextScan == CallScan

\* parse_generated_files applied to one stdout/stderr pair in one state of the
\* file system.
SpecScan == InitScan /\ [][NextScan]_vars

Scanned == probe.fn = "parse_generated_files" /\ probe.ret.err # "pending"
Returned ==
    (IF probe.ret.chart_path # None THEN {probe.ret.chart_path} ELSE {})
        \cup SeqToSet(probe.ret.data_files)

\* C13: every path the Output Scanner returns passed the Path Sanitizer at
\* scan time (it is inside the trusted root and exists), and no candidate
\* makes the scan fail.
C13_ScanSanitizedNeverFails ==
    Scanned =>
        /\ probe.ret.err = ""
        /\ \A p \in Returned : Inside(p) /\ p \in files

\* The tokens of either stream, those that pass the Path Sanitizer in the
\* current file system, and the files they resolve to, by the kind of their
\* extension.
Tokens == findall(probe.stdout) \cup findall(probe.stderr)
Survivors ==
    {c \in Tokens :
        Resolvable(c) /\ Inside(Leads(c)) /\ Leads(c) \in files}
SurvivingImages == {Leads(c) : c \in {s \in Survivors : suffix_lower(Leads(s)) \in IMAGE_EXTENSIONS}}
SurvivingData == {Leads(c) : c \in {s \in Survivors : suffix_lower(Leads(s)) \in DATA_EXTENSIONS}}

\* C14: a scan that returns holds at most one chart, which is a surviving
\* image candidate, and holds one whenever there is such a candidate; every
\* surviving data candidate is in dataFiles, and nothing else is: the other
\* surviving images are dropped.  For "Saved chart to out/chart.png\nSaved CSV
\* to out/data.csv\n" with both files existing the result is that chart and
\* that one data file.
C14_ScanClassifies ==
    (Scanned /\ probe.ret.err = "") =>
        /\ probe.ret.chart_path # None => probe.ret.chart_path \in SurvivingImages
        /\ SurvivingImages # {} => probe.ret.chart_path # None
        /\ SeqToSet(probe.ret.data_files) = SurvivingData
        /\ (probe.stdout = SAVED_BOTH /\ probe.stderr = <<>> /\ lnk = None
                /\ {CHART_FILE, DATA_FILE} \subseteq files)
              => probe.ret.chart_path = CHART_FILE /\ probe.ret.data_files = <<DATA_FILE>>

\* Two existing images and one existing data file were named: the image the
\* iteration met second is dropped.
C14_Witness ==
    /\ Scanned
    /\ probe.stdout = <<W_CHART, W_SVG>>
    /\ probe.stderr = <<W_DATA>>
    /\ probe.order[1] = W_SVG
    /\ probe.ret = [err |-> "", chart_path |-> SVG_FILE, data_files |-> <<DATA_FILE>>]

\* The statement of C15 as the spec has it: no file appears twice in the
\* returned dataFiles.
C15_NoFileTwice ==
    (Scanned /\ probe.ret.err = "") =>
        \A i, k \in 1..Len(probe.ret.data_files) :
            probe.ret.data_files[i] = probe.ret.data_files[k] => i = k

\* The distinct surviving tokens that resolve to file f.
Spellings(f) == {c \in Survivors : Leads(c) = f}

\* C15 (amended): the candidates of both streams are pooled into a set of
\* tokens, so a token printed more than once (twice in stdout, or in both
\* streams) is scanned once; a data file appears in dataFiles once for each
\* distinct token that resolves to it, so a file named under two spellings
\* (out/data.csv and ./out/data.csv) appears twice.
C15_OncePerToken ==
    (Scanned /\ probe.ret.err = "") =>
        /\ SeqToSet(probe.order) = Tokens /\ Len(probe.order) = Cardinality(Tokens)
        /\ \A f \in SurvivingData :
              Cardinality({i \in 1..Len(probe.ret.data_files) : probe.ret.data_files[i] = f})
                  = Cardinality(Spellings(f))

\* out/data.csv printed in stdout and in stderr, and once more as
\* ./out/data.csv: two tokens, the file twice in dataFiles.
C15_Witness ==
    /\ Scanned
    /\ probe.stdout = <<W_DATA, W_DOT_DATA>>
    /\ probe.stderr = <<W_DATA>>
    /\ probe.ret = [err |-> "", chart_path |-> None, data_files |-> <<DATA_FILE, DATA_FILE>>]

\* --------------------------------------------- the Argument Resolver alone

T_LIMIT == Tok("--limit")
T_50 == Tok("50")
T_OLD == Tok("2025-01-01")
V_START == Tok("2025-02-01")
V_END == Tok("2025-02-28")

\* Tokens of a baseline in the query configuration.
ArgTokens == {T_LIMIT, T_50, T_OLD, START_FLAG, END_FLAG}
Baselines == UNION {[1..n -> ArgTokens] : n \in 0..MaxArgs}
\* The overrides dict api_run_query builds: a flag is a key only if its date
\* normalized to a value.
OverrideDicts ==
    {overrides_of(s, e) : s \in {None, V_START}, e \in {None, V_END}}

InitArgs ==
    /\ jobs = <<>>
    /\ req = [r \in Slots |-> NoRequest]
    /\ wrk = [r \in Slots |-> NoWorker]
    /\ files = StaticFiles
    /\ lnk = None
    /\ now = 0
    /\ probe \in {[fn |-> "resolve_query_args", pc |-> "call", baseline |-> b, overrides |-> o,
                   ret |-> <<>>, baseline_after |-> b] :
                    b \in Baselines, o \in OverrideDicts}

\* The loop writing to the caller's list itself.
result_object_same(overrides) == "baseline"

\* The list object the loop of lines 287-296 writes to: baseline itself is
\* returned untouched when there are no overrides (line 284), otherwise the
\* writes go to the copy baseline[:] of line 286.
result_object(overrides) == IF DOMAIN overrides = {} THEN "baseline" ELSE "copy"

\* resolve_query_args on a baseline the caller holds: what is returned, and
\* the caller's list afterwards.
CallResolveArgs ==
    /\ probe.fn = "resolve_query_args"
    /\ probe.pc = "call"
    /\ LET ret == resolve_args(probe.baseline, probe.overrides)
       IN  probe' = [probe EXCEPT !.pc = "done", !.ret = ret,
                        !.baseline_after = IF result_object(probe.overrides) = "baseline"
                                           THEN ret ELSE probe.baseline]
    /\ UNCHANGED <<jobs, req, wrk, files, lnk, now>>

NextArgs == CallResolveArgs

SpecArgs == InitArgs /\ [][NextArgs]_vars

Resolved == probe.fn = "resolve_query_args" /\ probe.pc = "done"
Supplied == DOMAIN probe.overrides
Has(seq, x) == \E i \in 1..Len(seq) : seq[i] = x
Pair(flag) == <<flag, probe.overrides[flag]>>
Count(seq, x) == Cardinality({i \in 1..Len(seq) : seq[i] = x})
\* The first position of x in seq.
First(seq, x) == CHOOSE i \in 1..Len(seq) : seq[i] = x /\ \A k \in 1..(i - 1) : seq[k] # x
\* seq and out differ at most in the positions P.
SameBut(seq, out, P) ==
    Len(out) = Len(seq) /\ \A k \in 1..Len(seq) : k \notin P => out[k] = seq[k]

\* C16: when the baseline holds none of the flags of the supplied overrides,
\* the result is the baseline, every token unchanged and in order, followed by
\* the pair [flag, value] of each supplied override, --start-date before
\* --end-date; the caller's baseline list is as it was.
C16_AbsentFlagAppended ==
    Resolved =>
        /\ probe.baseline_after = probe.baseline
        /\ (\A f \in Supplied : ~Has(probe.baseline, f)) =>
              probe.ret = probe.baseline
                    \o (IF START_FLAG \in Supplied THEN Pair(START_FLAG) ELSE <<>>)
                    \o (IF END_FLAG \in Supplied THEN Pair(END_FLAG) ELSE <<>>)
        /\ (probe.baseline = <<T_LIMIT, T_50>> /\ Supplied = {START_FLAG})
              => probe.ret = <<T_LIMIT, T_50, START_FLAG, V_START>>

\* Both overrides supplied, neither flag in the baseline: the two pairs follow
\* the baseline, --start-date first.
C16_Witness ==
    /\ Resolved
    /\ probe.baseline = <<T_LIMIT, T_50>>
    /\ Supplied = {START_FLAG, END_FLAG}
    /\ probe.ret = <<T_LIMIT, T_50, START_FLAG, V_START, END_FLAG, V_END>>
    /\ probe.baseline_after = <<T_LIMIT, T_50>>

DiscoveredIds == {Q_A, Q_B}
Answered(r) == req[r].pc = "returned"

JNum == [t |-> "num", s |-> <<>>]

YearFields == {<<"0", "9", "9", "9">>, <<"2", "0", "2", "4">>, <<"2", "0", "2", "5">>,
               <<"0", "0", "0", "0">>}
MonthFields == {<<"0", "2">>, <<"2">>, <<"1", "1">>, <<"1", "3">>}
DayFields == {<<"0", "8">>, <<"8">>, <<" ", "8">>, <<"2", "9">>, <<"3", "1">>}

\* Three fields joined by a separator.
Joined(a, sep, b, c) == a \o <<sep>> \o b \o <<sep>> \o c
Spaces(n) == [i \in 1..n |-> " "]

\* Date fields of a request body: year-month-day, month/day/year,
\* month-day-year and year/month/day texts, with spaces around them; other
\* strings; values that are not strings.
DateTexts ==
    {Spaces(l) \o t \o Spaces(r) :
        l \in 0..MaxPadding, r \in 0..MaxPadding,
        t \in UNION {{Joined(y, "-", m, d), Joined(m, "/", d, y), Joined(m, "-", d, y),
                      Joined(y, "/", m, d)} :
                        y \in YearFields, m \in MonthFields, d \in DayFields}}
DateValues == {JNull, JNum} \cup {JStr(t) : t \in DateTexts \cup {D_BAD, D_US, <<>>, Spaces(MaxPadding)}}

InitDates ==
    /\ jobs = <<>>
    /\ req = [r \in Slots |-> NoRequest]
    /\ wrk = [r \in Slots |-> NoWorker]
    /\ files = StaticFiles
    /\ lnk = None
    /\ now = 0
    /\ probe \in {[fn |-> "normalize_date_input", pc |-> "call", libc |-> c, arg |-> v, ret |-> None] :
                    c \in CLibraries, v \in DateValues}

CallNormalizeDate ==
    /\ probe.fn = "normalize_date_input"
    /\ probe.pc = "call"
    /\ probe' = [probe EXCEPT !.pc = "done", !.ret = normalize_date_input(probe.libc, probe.arg)]
    /\ UNCHANGED <<jobs, req, wrk, files, lnk, now>>

NextDates == CallNormalizeDate

\* normalize_date_input applied to one value of a request body.
SpecDates == InitDates /\ [][NextDates]_vars

\* The calendar dates of three years, each written in the three accepted
\* forms (month and day with or without a leading zero), with the
\* YYYY-MM-DD text of the date.
TableYears == {999, 2024, 2025}
MonthTexts(m) == {Pad2(m)} \cup (IF m < 10 THEN {Digits(m)} ELSE {})
DayTexts(d) == {Pad2(d)} \cup (IF d < 10 THEN {Digits(d), <<" ">> \o Digits(d)} ELSE {})
Written(y, m, d) ==
    UNION {{Joined(Pad4(y), "-", mt, dt), Joined(mt, "/", dt, Pad4(y)),
            Joined(mt, "-", dt, Pad4(y))} :
              mt \in MonthTexts(m), dt \in DayTexts(d)}
DateTable ==
    UNION {IF d <= DaysIn(y, m)
           THEN {<<t, Joined(Pad4(y), "-", Pad2(m), Pad2(d))>> : t \in Written(y, m, d)}
           ELSE {} :
            y \in TableYears, m \in 1..12, d \in 1..31}

DateNormalized == probe.fn = "normalize_date_input" /\ probe.pc = "done"

\* C19: every valid calendar date written as YYYY-MM-DD, MM/DD/YYYY or
\* MM-DD-YYYY is mapped to the same date in YYYY-MM-DD form, and every other
\* value (missing, empty, blank, not a string, in no accepted format, an
\* impossible date) to None.
C19_DatesNormalized ==
    DateNormalized =>
        LET hits == IF probe.arg.t = "str"
                    THEN {e \in DateTable : e[1] = strip(probe.arg.s)} ELSE {}
        IN  /\ \A e \in hits : probe.ret = e[2]
            /\ hits = {} => probe.ret = None

\* ------------------------------------------------- the Query Catalog alone

Q_R == <<"r">>

\* What reading and parsing a script may come to: read_text raises OSError
\* (unreadable) or UnicodeDecodeError (not UTF-8), ast.parse raises SyntaxError
\* or, on the CPython releases whose compile() rejects a null byte that way,
\* ValueError.
ScriptFiles ==
    {[parse |-> "ok", doc |-> d, name |-> n] : d \in {"", "Revenue"}, n \in {<<>>, <<"R">>}}
        \cup {[parse |-> e, doc |-> "", name |-> <<>>] :
                e \in {"OSError", "UnicodeDecodeError", "SyntaxError", "ValueError"}}

\* The query directory: at most MaxScripts scripts.
QueryDirs ==
    UNION {[S -> ScriptFiles] : S \in {T \in SUBSET {Q_A, Q_B, Q_R} : Cardinality(T) <= MaxScripts}}

\* The loop of discover_queries over the sorted scripts of dir.
RECURSIVE discover_from(_, _, _)
discover_from(dir, ids, acc) ==
    IF ids = <<>> THEN [err |-> "", definitions |-> acc]
    ELSE LET m == extract_metadata(Head(ids), dir[Head(ids)]) IN
         IF m.err # "" THEN [err |-> m.err, definitions |-> <<>>]
         ELSE discover_from(dir, Tail(ids), Append(acc, m.definition))

discover(dir) == discover_from(dir, sorted_ids(DOMAIN dir), <<>>)

\* get_query_definition over dir: KeyError when no definition matches.
lookup(dir, query_id) ==
    LET ds == discover(dir) IN
    IF ds.err # "" THEN [err |-> ds.err, definitions |-> <<>>]
    ELSE LET hit == {i \in 1..Len(ds.definitions) : ds.definitions[i].identifier = query_id}
         IN  IF hit = {} THEN [err |-> "KeyError", definitions |-> <<>>]
             ELSE [err |-> "", definitions |-> <<ds.definitions[CHOOSE i \in hit : \A k \in hit : i <= k]>>]

InitCatalog ==
    /\ jobs = <<>>
    /\ req = [r \in Slots |-> NoRequest]
    /\ wrk = [r \in Slots |-> NoWorker]
    /\ files = StaticFiles
    /\ lnk = None
    /\ now = 0
    /\ probe \in {[fn |-> "discover_queries", pc |-> "call", dir |-> d, query_id |-> None,
                   ret |-> [err |-> "", definitions |-> <<>>]] : d \in QueryDirs}

\* List queries: discover_queries().
CallDiscover ==
    /\ probe.fn = "discover_queries"
    /\ probe.pc = "call"
    /\ probe' = [probe EXCEPT !.pc = "listed", !.ret = discover(probe.dir)]
    /\ UNCHANGED <<jobs, req, wrk, files, lnk, now>>

\* Submit run: get_query_definition(query_id).
CallLookup ==
    /\ probe.fn = "discover_queries"
    /\ probe.pc = "call"
    /\ \E query_id \in DOMAIN probe.dir :
        probe' = [probe EXCEPT !.pc = "found", !.query_id = query_id,
                               !.ret = lookup(probe.dir, query_id)]
    /\ UNCHANGED <<jobs, req, wrk, files, lnk, now>>

NextCatalog == CallDiscover \/ CallLookup

SpecCatalog == InitCatalog /\ [][NextCatalog]_vars

\* The scripts of the directory whose metadata cannot be extracted.
Broken == {id \in DOMAIN probe.dir : probe.dir[id].parse # "ok"}

\* C20: a script whose content cannot be read, decoded or parsed is still
\* listed, with the title derived from its file name and no summary, and never
\* makes discover_queries or the lookup of another query fail.
C20_CatalogRecovers ==
    /\ (probe.fn = "discover_queries" /\ probe.pc = "listed") =>
          /\ probe.ret.err = ""
          /\ {probe.ret.definitions[i].identifier : i \in 1..Len(probe.ret.definitions)}
                = DOMAIN probe.dir
          /\ \A i \in 1..Len(probe.ret.definitions) :
                probe.ret.definitions[i].identifier \in Broken =>
                    /\ probe.ret.definitions[i].title
                          = default_title(probe.ret.definitions[i].identifier)
                    /\ probe.ret.definitions[i].summary = ""
    /\ (probe.fn = "discover_queries" /\ probe.pc = "found") =>
          /\ probe.ret.err = ""
          /\ probe.ret.definitions[1].identifier = probe.query_id

\* ------------------------------------------- the query directory changing

\* The scripts that come and go: one that parses, one that does not, one that
\* is not UTF-8.
ArchiveScripts ==
    {[parse |-> "ok", doc |-> "Revenue", name |-> <<>>],
     [parse |-> "SyntaxError", doc |-> "", name |-> <<>>],
     [parse |-> "UnicodeDecodeError", doc |-> "", name |-> <<>>]}

ArchiveDirs == UNION {[S -> ArchiveScripts] : S \in SUBSET {Q_A, Q_B}}

\* probe.dir is the query directory, probe.old the backups api_delete_query
\* has made (<<identifier, n>> is <identifier>.py_old, or .py_old<n> for n > 0),
\* probe.ret what the last catalog call returned.
InitArchive ==
    /\ jobs = <<>>
    /\ req = [r \in Slots |-> NoRequest]
    /\ wrk = [r \in Slots |-> NoWorker]
    /\ files = StaticFiles
    /\ lnk = None
    /\ now = 0
    /\ probe \in {[fn |-> "catalog", dir |-> d, old |-> {}, last |-> "none",
                   ret |-> [err |-> "", definitions |-> <<>>]] : d \in ArchiveDirs}

\* The function f without the key k.
without(f, k) == [x \in DOMAIN f \ {k} |-> f[x]]

\* List queries (lines 349-350).
ArchiveList ==
    /\ probe.fn = "catalog"
    /\ probe' = [probe EXCEPT !.last = "list", !.ret = discover(probe.dir)]
    /\ UNCHANGED <<jobs, req, wrk, files, lnk, now>>

\* Lines 355-367 of api_run_query over the directory as it is now: an
\* exception other than KeyError leaves the handler (500).
ArchiveSubmit(r) ==
    /\ probe.fn = "catalog"
    /\ req[r].pc = "idle"
    /\ IF r = 1 THEN TRUE ELSE req[r - 1].pc # "idle"
    /\ \E payload \in Payloads :
        LET found == lookup(probe.dir, payload.queryId) IN
        /\ probe' = [probe EXCEPT !.last = "submit", !.ret = found]
        /\ IF payload.queryId = <<>>
           THEN /\ req' = [req EXCEPT ![r] = [@ EXCEPT !.pc = "returned", !.payload = payload,
                                                !.response = [code |-> 400]]]
                /\ UNCHANGED <<jobs, now>>
           ELSE IF found.err # ""
           THEN /\ req' = [req EXCEPT ![r] = [@ EXCEPT !.pc = "returned", !.payload = payload,
                             !.response = [code |-> IF found.err = "KeyError" THEN 404 ELSE 500]]]
                /\ UNCHANGED <<jobs, now>>
           ELSE \E job_id \in uuid4(r) \ DOMAIN jobs :
                /\ jobs' = create_job(jobs, job_id, found.definitions[1], utcnow, utcnow)
                /\ now' = now
                /\ req' = [req EXCEPT ![r] = [@ EXCEPT !.pc = "created", !.payload = payload,
                                                !.job = job_id,
                                                !.definition = found.definitions[1]]]
    /\ UNCHANGED <<wrk, files, lnk>>

\* api_delete_query (lines 393-407): the script is renamed to the first free
\* backup name; 404 when there is no such script.
ArchiveQuery(query_id) ==
    /\ probe.fn = "catalog"
    /\ IF query_id \notin DOMAIN probe.dir
       THEN probe' = [probe EXCEPT !.last = "archive 404"]
       ELSE LET taken == {n \in 0..Cardinality(probe.old) : <<query_id, n>> \in probe.old}
                suffix == CHOOSE n \in 0..Cardinality(probe.old) :
                            /\ <<query_id, n>> \notin probe.old
                            /\ \A k \in 0..(n - 1) : k \in taken
            IN  probe' = [probe EXCEPT !.last = "archive",
                                       !.dir = without(probe.dir, query_id),
                                       !.old = @ \cup {<<query_id, suffix>>}]
    /\ UNCHANGED <<jobs, req, wrk, files, lnk, now>>

\* The external collaborator renames a script.
EnvRenameScript(query_id, new_id) ==
    /\ probe.fn = "catalog"
    /\ query_id \in DOMAIN probe.dir
    /\ new_id \notin DOMAIN probe.dir
    /\ probe' = [probe EXCEPT !.last = "rename",
                   !.dir = without(probe.dir, query_id) @@ (new_id :> probe.dir[query_id])]
    /\ UNCHANGED <<jobs, req, wrk, files, lnk, now>>

NextArchive ==
    \/ ArchiveList
    \/ \E r \in EnvSlots : ArchiveSubmit(r)
    \/ \E query_id \in {Q_A, Q_B} : ArchiveQuery(query_id)
    \/ \E query_id \in {Q_A, Q_B} : \E new_id \in {Q_A, Q_B} : EnvRenameScript(query_id, new_id)
    \/ \E r \in EnvSlots : SubmitStart(r)
    \/ \E r \in EnvSlots : SubmitReturn(r)
    \/ \E r \in EnvSlots : WorkerLaunch(r)
    \/ \E r \in EnvSlots : ChildExit(r)
    \/ \E r \in EnvSlots : WorkerCollect(r)
    \/ \E r \in EnvSlots : WorkerStore(r)
    \/ \E r \in EnvSlots : WorkerFinish(r)

\* The server while scripts are archived and renamed.
SpecArchive == InitArchive /\ [][NextArchive]_vars

\* The identifiers of a sequence of definitions, in order.
Identifiers(ds) == [i \in 1..Len(ds) |-> ds[i].identifier]

\* C21: every listing has exactly one entry for each script in the query
\* directory at that moment, sorted by file name, with distinct identifiers;
\* a submit for an identifier that is in the directory creates a job and one
\* for an identifier that is not (any more) is answered NotFound; archiving or
\* renaming a script leaves the job records as they are.
C21_ListingFollowsDirectory ==
    /\ [](probe.last = "list" =>
            /\ probe.ret.err = ""
            /\ Identifiers(probe.ret.definitions) = sorted_ids(DOMAIN probe.dir))
    /\ [][\A r \in EnvSlots :
            (req[r].pc = "idle" /\ req'[r].pc # "idle" /\ req'[r].payload.queryId # <<>>) =>
                IF req'[r].payload.queryId \in DOMAIN probe.dir
                THEN /\ req'[r].pc = "created"
                     /\ DOMAIN jobs' = DOMAIN jobs \cup {req'[r].job}
                     /\ jobs'[req'[r].job].query = req'[r].payload.queryId
                ELSE /\ req'[r].response.code = 404
                     /\ jobs' = jobs]_vars
    /\ [][probe'.dir # probe.dir => jobs' = jobs]_vars

\* ---------------------------------------------------------------- C22

\* The job ids a client may ask about: the ones created and one never issued.
UNKNOWN_JOB == <<"a", "0">>
AskedIds == JobIds \cup {UNKNOWN_JOB}

\* The paths stored on a job record.
StoredPaths(job) ==
    (IF job.chartPath # None THEN {job.chartPath} ELSE {}) \cup SeqToSet(job.dataFiles)

\* The fields of a record that hold text captured from the child process.
TextFields == {"stdout", "stderr", "error"}

\* The structured part of a status response: no chartPath field, data files
\* shown by base name and index URL, hasChart and chartUrl as the record says.
HidesPathFields(job_id, job, response) ==
    /\ "chartPath" \notin DOMAIN response
    /\ Len(response.dataFiles) = Len(job.dataFiles)
    /\ \A i \in 1..Len(job.dataFiles) :
          /\ DOMAIN response.dataFiles[i] = {"name", "url"}
          /\ response.dataFiles[i].name = Last(job.dataFiles[i])
          /\ response.dataFiles[i].url = <<"files", job_id, i - 1>>
    /\ response.hasChart = (job.chartPath # None)
    /\ ("chartUrl" \in DOMAIN response) = response.hasChart

C23_NeverRemovedNeverReused ==
    /\ [](\A r \in Slots : req[r].job # None => req[r].job \in DOMAIN jobs)
    /\ [][/\ DOMAIN jobs \subseteq DOMAIN jobs'
          /\ \A r \in Slots :
                (req[r].job = None /\ req'[r].job # None) =>
                    /\ req'[r].job \notin DOMAIN jobs
                    /\ DOMAIN jobs' = DOMAIN jobs \cup {req'[r].job}
                    /\ \A id \in DOMAIN jobs : jobs'[id] = jobs[id]
          /\ (\A r \in Slots : req'[r].job = req[r].job) => DOMAIN jobs' = DOMAIN jobs]_vars

\* Two jobs created one after the other, the first already run to its end.
C23_Witness ==
    /\ Cardinality(DOMAIN jobs) = 2
    /\ req[1].job # None /\ req[2].job # None /\ req[1].job # req[2].job
    /\ jobs[req[1].job].status \in Terminal
    /\ wrk[2].pc = "done"

\* ---------------------------------------------------------------- C24

\* The slots whose worker has made its final update.
Finished == {r \in Slots : wrk[r].pc = "done"}

\* C24: a job that ended in ERROR after a nonzero exit code has as its error
\* the stderr text with surrounding whitespace removed, or, when nothing is
\* left of it, the generic message citing the exit code; one that ended in
\* ERROR after exit code zero has no chart and the fixed no-chart message.  The
\* exit code is looked at first: a nonzero exit without a chart reports the
\* stderr or exit-code message, never the no-chart message.
C24_ErrorMessage ==
    \A r \in Finished :
        LET job == jobs[wrk[r].job_id]
            returncode == wrk[r].run.returncode
            trimmed == strip_text(wrk[r].run.stderr)
        IN  /\ returncode # 0 =>
                /\ job.status = ERROR
                /\ job.error = IF trimmed # <<>> THEN trimmed ELSE exit_message(returncode)
                /\ job.error # NO_CHART_MESSAGE
            /\ (returncode = 0 /\ job.status = ERROR) =>
                /\ job.chartPath = None
                /\ job.error = NO_CHART_MESSAGE

\* One job failed by its exit code, with blank stderr and no chart, next to one
\* that exited with zero and produced no chart.
C24_Witness ==
    \E r, q \in Finished :
        /\ wrk[r].run.returncode # 0
        /\ wrk[r].run.stderr # <<>>
        /\ jobs[wrk[r].job_id].chartPath = None
        /\ jobs[wrk[r].job_id].error = exit_message(wrk[r].run.returncode)
        /\ wrk[q].run.returncode = 0
        /\ jobs[wrk[q].job_id].error = NO_CHART_MESSAGE

\* ---------------------------------------------------------------- C25

\* The streams of the child of slot r, and the log of one of them.
StreamOf(r, kind) == IF kind = "output" THEN wrk[r].run.stdout ELSE wrk[r].run.stderr
LogOf(r, kind) == log_file(wrk[r].query.identifier, now, wrk[r].job_id, kind)

\* The logs of slot r when a log is written for each stream that is not empty,
\* and when one is written for each stream that is not blank.
LogsIfNonEmpty(r) ==
    (IF StreamOf(r, "output") # <<>> THEN <<LogOf(r, "output")>> ELSE <<>>)
    \o (IF StreamOf(r, "stderr") # <<>> THEN <<LogOf(r, "stderr")>> ELSE <<>>)
LogsIfNonBlank(r) ==
    (IF strip_text(StreamOf(r, "output")) # <<>> THEN <<LogOf(r, "output")>> ELSE <<>>)
    \o (IF strip_text(StreamOf(r, "stderr")) # <<>> THEN <<LogOf(r, "stderr")>> ELSE <<>>)

\* The data files the scanner may return for the output of slot r.
ScannedData(r) ==
    {parse_generated_files(order).data_files :
        order \in Orders(findall(wrk[r].run.stdout) \cup findall(wrk[r].run.stderr))}

\* The runner's steps between the exit of the child and the stored result.
Collects(r) == wrk[r].pc = "exiting" /\ wrk'[r].pc = "exited"
Stores(r) == wrk[r].pc = "exited" /\ wrk'[r].pc = "stored"

\* C25 as stated: after the child exits the runner writes a log for stdout
\* whenever stdout is not empty and a distinct one for stderr whenever stderr is
\* not empty, and nothing for an empty stream, before the result is stored; the
\* job's dataFiles is then the scanner's data files followed by the logs
\* written, stdout's first.
C25_LogsWhenNonEmpty ==
    [][\A r \in Slots :
        /\ Collects(r) =>
            /\ files' = files \cup {OUTPUT_DIR} \cup SeqToSet(LogsIfNonEmpty(r))
            /\ \E data \in ScannedData(r) : wrk'[r].data_files = data \o LogsIfNonEmpty(r)
            /\ jobs' = jobs
        /\ Stores(r) =>
            /\ SeqToSet(LogsIfNonEmpty(r)) \subseteq files
            /\ jobs'[wrk[r].job_id].dataFiles = wrk[r].data_files]_vars

\* C25 as corrected: a log is written for each stream that has a character
\* other than whitespace, and none for a stream that is empty or blank; the
\* rest is as stated.
C25_LogsWhenNonBlank ==
    [][\A r \in Slots :
        /\ Collects(r) =>
            /\ files' = files \cup {OUTPUT_DIR} \cup SeqToSet(LogsIfNonBlank(r))
            /\ \E data \in ScannedData(r) : wrk'[r].data_files = data \o LogsIfNonBlank(r)
            /\ LogOf(r, "output") # LogOf(r, "stderr")
            /\ jobs' = jobs
        /\ Stores(r) =>
            /\ SeqToSet(LogsIfNonBlank(r)) \subseteq files
            /\ jobs'[wrk[r].job_id].dataFiles = wrk[r].data_files]_vars

\* One job stored with a scanned data file followed by its stdout log, and one
\* stored with no data file after a run whose stderr was blank but not empty.
C25_Witness ==
    \E r, q \in Slots :
        /\ wrk[r].pc = "stored"
        /\ jobs[wrk[r].job_id].dataFiles = <<DATA_FILE, LogOf(r, "output")>>
        /\ LogOf(r, "output") \in files
        /\ wrk[q].pc = "stored"
        /\ wrk[q].run.stderr # <<>>
        /\ jobs[wrk[q].job_id].dataFiles = <<>>

\* ------------------------------------------- the logs of concurrent runs

\* The first 8 characters of a job id: two ids may have them in common.
LogPrefixes == {"a", "b"}

\* The record of a job that was created, given its parameters and marked
\* RUNNING at time 0.
running_job(job_id, query) ==
    update_job(
        update_job(create_job(<<>>, job_id, query, 0, 0), job_id,
                   [parameters |-> [startDate |-> None, endDate |-> None]], 0),
        job_id, [status |-> RUNNING], 0)[job_id]

\* Every slot has submitted a query without dates and its child is running.
InitLogs ==
    /\ now = 0
    /\ files = StaticFiles
    /\ lnk = None
    /\ probe = [fn |-> "logs"]
    /\ \E prefix \in [Slots -> LogPrefixes] : \E query_id \in [Slots -> DOMAIN QUERY_DIR] :
        LET id(r) == <<prefix[r], ToString(r)>>
            definition(r) == get_query_definition(query_id[r])
            slot(job_id) == CHOOSE r \in Slots : id(r) = job_id
        IN  /\ jobs = [job_id \in {id(r) : r \in Slots} |->
                          running_job(job_id, definition(slot(job_id)))]
            /\ req = [r \in Slots |->
                        [pc |-> "returned",
                         payload |-> [queryId |-> query_id[r], startDate |-> JNull,
                                      endDate |-> JNull],
                         job |-> id(r), definition |-> definition(r),
                         response |-> [code |-> 200, jobId |-> id(r), status |-> QUEUED,
                                       title |-> definition(r).title]]]
            /\ wrk = [r \in Slots |->
                        [NoWorker EXCEPT !.pc = "child", !.job_id = id(r),
                                         !.query = definition(r),
                                         !.args = resolve_query_args(definition(r), <<>>)]]

\* A second passes.
LogsTick ==
    /\ probe.fn = "logs"
    /\ now < MaxClock
    /\ now' = now + 1
    /\ UNCHANGED <<jobs, req, wrk, files, lnk, probe>>

NextLogs ==
    \/ LogsTick
    \/ \E r \in Slots : ChildExit(r)
    \/ \E r \in Slots : WorkerCollect(r)
    \/ \E r \in Slots : WorkerStore(r)
    \/ \E r \in Slots : WorkerFinish(r)

\* The runs of jobs whose ids may agree in their first 8 characters, while
\* the clock advances.
SpecLogs == InitLogs /\ [][NextLogs]_vars

\* The log files slot r has written.
LogPaths(r) ==
    IF wrk[r].pc \in {"exited", "stored", "done"}
    THEN {p \in SeqToSet(wrk[r].data_files) : Front(p) = OUTPUT_DIR}
    ELSE {}

\* C26: no log file is written by two different jobs: whatever their query
\* identifiers, completion times and ids, the log file names of two distinct
\* jobs are different.
C26_LogNamesDistinct ==
    \A r, q \in Slots : r # q => LogPaths(r) \cap LogPaths(q) = {}

\* ---------------------------------------------------------------- C27

\* The slots whose child process has been launched and has not exited.
ChildRunning == {r \in Slots : wrk[r].pc = "child"}

\* The output fields of a job record are as create_job set them.
NoOutput(job) ==
    /\ job.stdout = <<>>
    /\ job.stderr = <<>>
    /\ job.chartPath = None
    /\ job.dataFiles = <<>>

\* Slot q can take the step it is waiting to take: a request can be accepted
\* or answered, a worker can launch its child, collect, store and finish.
CanProceed(q) ==
    /\ (req[q].pc = "idle" /\ (IF q = 1 THEN TRUE ELSE req[q - 1].pc # "idle"))
            => ENABLED SubmitCreate(q)
    /\ req[q].pc = "started" => ENABLED SubmitReturn(q)
    /\ wrk[q].pc = "start" => ENABLED WorkerLaunch(q)
    /\ wrk[q].pc = "child" => ENABLED ChildExit(q)
    /\ wrk[q].pc = "exiting" => ENABLED WorkerCollect(q)
    /\ wrk[q].pc = "exited" => ENABLED WorkerStore(q)
    /\ wrk[q].pc = "stored" => ENABLED WorkerFinish(q)

\* C27: a job is COMPLETED or ERROR, or has any of stdout, stderr, chartPath
\* and dataFiles set, only after its child process has exited; while the child
\* has not exited the job is RUNNING with empty output fields, no step of
\* another request, worker or reader changes its record, and the submitting
\* request and the other jobs can take their next step.
C27_RunningUntilChildExits ==
    /\ [](\A r \in Slots : wrk[r].job_id # None =>
            LET job == jobs[wrk[r].job_id] IN
            /\ (job.status \in Terminal \/ ~NoOutput(job))
                    => wrk[r].pc \in {"stored", "done"}
            /\ r \in ChildRunning => (job.status = RUNNING /\ NoOutput(job)))
    /\ [](ChildRunning # {} => \A q \in Slots : CanProceed(q))
    /\ [][\A r \in ChildRunning :
            wrk'[r].pc = "child" => jobs'[wrk[r].job_id] = jobs[wrk[r].job_id]]_vars

\* The child of the first job is still running when the second job, submitted
\* later, is already finished and the first request has been answered.
C27_Witness ==
    /\ 1 \in ChildRunning
    /\ req[1].pc = "returned"
    /\ wrk[2].pc = "done"
    /\ jobs[wrk[2].job_id].status \in Terminal
    /\ jobs[wrk[1].job_id].status = RUNNING

\* ------------------------------------- the Argument Resolver applied twice

InitTwice ==
    /\ jobs = <<>>
    /\ req = [r \in Slots |-> NoRequest]
    /\ wrk = [r \in Slots |-> NoWorker]
    /\ files = StaticFiles
    /\ lnk = None
    /\ now = 0
    /\ probe \in {[fn |-> "resolve twice", pc |-> "call", baseline |-> b, overrides |-> o,
                   once |-> <<>>, twice |-> <<>>] :
                    b \in Baselines, o \in OverrideDicts}

\* resolve_query_args on the configured baseline.
ResolveOnce ==
    /\ probe.fn = "resolve twice"
    /\ probe.pc = "call"
    /\ probe' = [probe EXCEPT !.pc = "once",
                              !.once = resolve_args(probe.baseline, probe.overrides)]
    /\ UNCHANGED <<jobs, req, wrk, files, lnk, now>>

\* resolve_query_args on the list the first call returned, same overrides.
ResolveTwice ==
    /\ probe.fn = "resolve twice"
    /\ probe.pc = "once"
    /\ probe' = [probe EXCEPT !.pc = "twice",
                              !.twice = resolve_args(probe.once, probe.overrides)]
    /\ UNCHANGED <<jobs, req, wrk, files, lnk, now>>

NextTwice == ResolveOnce \/ ResolveTwice

SpecTwice == InitTwice /\ [][NextTwice]_vars

ResolvedTwice == probe.fn = "resolve twice" /\ probe.pc = "twice"

\* seq holds flag followed immediately by value.
Adjacent(seq, flag, value) ==
    \E i \in 1..(Len(seq) - 1) : seq[i] = flag /\ seq[i + 1] = value

\* Resolving again changed nothing, and each overridden flag is followed by
\* its value.
Settled ==
    /\ probe.twice = probe.once
    /\ \A flag \in DOMAIN probe.overrides :
          Adjacent(probe.once, flag, probe.overrides[flag])

\* In seq the first occurrence of flag, if there is one, is followed by a
\* token that is not a date flag.
ValueFollows(seq, flag) ==
    \A i \in 1..Len(seq) :
        (seq[i] = flag /\ \A k \in 1..(i - 1) : seq[k] # flag) =>
            (i < Len(seq) /\ seq[i + 1] \notin {START_FLAG, END_FLAG})

\* C28 as stated: for every baseline and every set of overrides, resolving the
\* resolved list again with the same overrides returns it unchanged, and the
\* result holds each overridden flag followed immediately by its value.
C28_ResolveIdempotent == ResolvedTwice => Settled

\* C28 as corrected: the same, for every baseline in which the first
\* occurrence of each overridden flag is followed by a token that is not a
\* date flag (or the flag does not occur).
C28_IdempotentWhenValueFollows ==
    (ResolvedTwice /\ \A flag \in DOMAIN probe.overrides : ValueFollows(probe.baseline, flag))
        => Settled

\* Both dates overridden, on a baseline that holds --start-date with an old
\* value and no --end-date: one substitution and one appended pair, resolved
\* twice.
C28_Witness ==
    /\ ResolvedTwice
    /\ DOMAIN probe.overrides = {START_FLAG, END_FLAG}
    /\ probe.baseline = <<T_LIMIT, T_50, START_FLAG, T_OLD>>
    /\ probe.once = <<T_LIMIT, T_50, START_FLAG, V_START, END_FLAG, V_END>>
    /\ probe.twice = probe.once

\* ---------------------------------------------------------------- C29

\* C29: in every state of the registry a job's error is set if and only if
\* its status is ERROR: it is None while the job is QUEUED or RUNNING and for
\* every COMPLETED job, and a job in ERROR has a message that is not empty.
C29_ErrorIffStatusError ==
    \A id \in DOMAIN jobs :
        /\ jobs[id].status \in {QUEUED, RUNNING, COMPLETED} => jobs[id].error = None
        /\ jobs[id].status = ERROR =>
              /\ jobs[id].error # None
              /\ strip_text(jobs[id].error) # <<>>

\* One job COMPLETED without an error next to one in ERROR with its message.
C29_Witness ==
    \E a, b \in DOMAIN jobs :
        /\ jobs[a].status = COMPLETED /\ jobs[a].error = None
        /\ jobs[b].status = ERROR /\ jobs[b].error # None

\* ------------------------------------------------ the server and the clock

\* A second passes.
ClockTick ==
    /\ probe = NoProbe
    /\ now < MaxClock
    /\ now' = now + 1
    /\ UNCHANGED <<jobs, req, wrk, files, lnk, probe>>

NextClock ==
    \/ ClockTick
    \/ \E r \in EnvSlots : SubmitCreate(r)
    \/ \E r \in EnvSlots : SubmitStart(r)
    \/ \E r \in EnvSlots : SubmitReturn(r)
    \/ \E r \in EnvSlots : WorkerLaunch(r)
    \/ \E r \in EnvSlots : ChildExit(r)
    \/ \E r \in EnvSlots : WorkerCollect(r)
    \/ \E r \in EnvSlots : WorkerStore(r)
    \/ \E r \in EnvSlots : WorkerFinish(r)
    \/ \E job_id \in JobIds : GetJobStatus(job_id)
    \/ \E job_id \in JobIds : GetJobChart(job_id)
    \/ \E job_id \in JobIds : \E i \in FileIndexes : GetJobFile(job_id, i)

\* The server while time passes.
SpecClock == Init /\ [][NextClock]_vars

\* The output fields of a job record.
Output(job) == <<job.stdout, job.stderr, job.chartPath, job.dataFiles>>

\* C30: a job's id, query, title and createdAt never change after creation;
\* its stdout, stderr, chartPath and dataFiles are written by one registry
\* update, the set_result of its worker, and never change afterwards; so the
\* chart URL and the data-file indexes of a status response stand for the same
\* stored paths in every later request.
C30_WrittenOnce ==
    [][\A id \in DOMAIN jobs :
        /\ jobs'[id].id = jobs[id].id
        /\ jobs'[id].query = jobs[id].query
        /\ jobs'[id].title = jobs[id].title
        /\ jobs'[id].createdAt = jobs[id].createdAt
        /\ Output(jobs'[id]) # Output(jobs[id]) =>
              /\ NoOutput(jobs[id])
              /\ \E r \in Slots : wrk[r].job_id = id /\ Stores(r)
        /\ \A r \in Slots :
              (wrk[r].job_id = id /\ wrk[r].pc \in {"stored", "done"}) =>
                  Output(jobs'[id]) = Output(jobs[id])
        /\ "chartUrl" \in DOMAIN api_job_status(id) => jobs'[id].chartPath = jobs[id].chartPath
        /\ \A i \in 1..Len(api_job_status(id).dataFiles) :
              jobs'[id].dataFiles[i] = jobs[id].dataFiles[i]]_vars

\* A job created at time 0 and finished at time MaxClock, with a chart and
\* data files to fetch.
C30_Witness ==
    \E r \in Slots :
        /\ wrk[r].pc = "done"
        /\ jobs[wrk[r].job_id].createdAt = 0
        /\ jobs[wrk[r].job_id].updatedAt = MaxClock
        /\ "chartUrl" \in DOMAIN api_job_status(wrk[r].job_id)
        /\ Len(api_job_status(wrk[r].job_id).dataFiles) = 2

====
